---- MODULE Spec2Model ----
(***************************************************************************)
(* Model of the knowledge-base storage and search module of MetaTherapy-Bot *)
(* (script-storage.ts: getAllScripts, addScript, deleteScript,              *)
(* searchScripts).                                                          *)
(*                                                                          *)
(* A JavaScript string is modelled as a sequence of one-character strings,  *)
(* so that startsWith, includes, trim, split, join and toLowerCase are      *)
(* computed character by character, as the runtime does.                    *)
(***************************************************************************)
EXTENDS Integers, Sequences, FiniteSets, TLC

VARIABLES
    mptKnowledgeBase,   \* the in-memory built-in corpus (array of scripts)
    customScripts,      \* rows of the custom_scripts table, in storage order
    issued,             \* number of suffixes randomUUID() has produced so far
    call,               \* the last completed call: operation, arguments, result
    procs,              \* the calls in flight, one per concurrent request
    log,                \* ids whose add / delete has returned, ids asked to delete
    http,               \* the last request handled by a route, with its response
    localStorage,       \* browser: the session list stored under STORAGE_KEY
    made,               \* browser: number of session ids the chat page has generated
    appended,           \* browser: number of messages appended to sessions so far
    sessionOp,          \* browser: the last session-storage call or page handler run
    currentSession,     \* chat page: React state, the selected session or none
    sessions,           \* chat page: React state, the session list shown
    pending             \* chat page: the /api/chat request in flight, or none

vars == <<mptKnowledgeBase, customScripts, issued, call, procs, log, http,
          localStorage, made, appended, sessionOp, currentSession, sessions, pending>>

concVars == <<procs, log>>
routeVars == <<http>>
storeVars == <<mptKnowledgeBase, customScripts, issued, call>>
pageVars == <<made, currentSession, sessions, pending>>
clientVars == <<localStorage, appended, sessionOp, pageVars>>

----------------------------------------------------------------------------
(* Bounds of the model *)

\* randomUUID() is called at most MaxIssued times in a behaviour
MaxIssued == 2

----------------------------------------------------------------------------
(* Strings *)

WhiteSpace == {" ", "\t"}

\* String.prototype.toLowerCase, one character
LowerChar(c) ==
    CASE c = "A" -> "a"
      [] c = "B" -> "b"
      [] c = "C" -> "c"
      [] c = "X" -> "x"
      [] c = "T" -> "t"
      [] c = "E" -> "e"
      [] c = "L" -> "l"
      [] c = "O" -> "o"
      [] c = "R" -> "r"
      [] c = "I" -> "i"
      [] OTHER -> c

toLowerCase(s) == [i \in 1..Len(s) |-> LowerChar(s[i])]

\* String.prototype.includes: t occurs in s as a contiguous substring
includes(s, t) ==
    \E i \in 0..(Len(s) - Len(t)) : SubSeq(s, i + 1, i + Len(t)) = t

startsWith(s, p) ==
    Len(s) >= Len(p) /\ SubSeq(s, 1, Len(p)) = p

RECURSIVE trimStart(_)
trimStart(s) ==
    IF s # <<>> /\ Head(s) \in WhiteSpace THEN trimStart(Tail(s)) ELSE s

RECURSIVE trimEnd(_)
trimEnd(s) ==
    IF s # <<>> /\ s[Len(s)] \in WhiteSpace
    THEN trimEnd(SubSeq(s, 1, Len(s) - 1))
    ELSE s

\* String.prototype.trim
trim(s) == trimEnd(trimStart(s))

\* String.prototype.split(c) for a one-character separator c
RECURSIVE split(_, _)
split(s, c) ==
    IF \A i \in 1..Len(s) : s[i] # c
    THEN <<s>>
    ELSE LET p == CHOOSE i \in 1..Len(s) :
                      s[i] = c /\ \A j \in 1..(i - 1) : s[j] # c
         IN  <<SubSeq(s, 1, p - 1)>> \o split(SubSeq(s, p + 1, Len(s)), c)

\* String.prototype.split(/\s+/): the separators are maximal whitespace runs
RECURSIVE splitWhitespace(_)
splitWhitespace(s) ==
    IF \A i \in 1..Len(s) : s[i] \notin WhiteSpace
    THEN <<s>>
    ELSE LET p == CHOOSE i \in 1..Len(s) :
                      s[i] \in WhiteSpace /\ \A j \in 1..(i - 1) : s[j] \notin WhiteSpace
             q == CHOOSE i \in p..Len(s) :
                      /\ \A j \in p..i : s[j] \in WhiteSpace
                      /\ (i = Len(s) \/ s[i + 1] \notin WhiteSpace)
         IN  <<SubSeq(s, 1, p - 1)>> \o splitWhitespace(SubSeq(s, q + 1, Len(s)))

\* Array.prototype.join(c) of an array of strings
RECURSIVE join(_, _)
join(arr, c) ==
    IF arr = <<>> THEN <<>>
    ELSE IF Len(arr) = 1 THEN arr[1]
    ELSE arr[1] \o <<c>> \o join(Tail(arr), c)

\* Array.prototype.slice(0, end)
slice0(arr, end) ==
    LET n == Len(arr)
        e == IF end < 0 THEN (IF n + end < 0 THEN 0 ELSE n + end)
             ELSE (IF end > n THEN n ELSE end)
    IN  SubSeq(arr, 1, e)

----------------------------------------------------------------------------
(* Identifiers *)

\* the provenance prefix "custom-"
Prefix == <<"c", "u", "s", "t", "o", "m", "-">>

Digit(n) == CASE n = 0 -> "0" [] n = 1 -> "1" [] n = 2 -> "2" [] n = 3 -> "3"
              [] n = 4 -> "4" [] n = 5 -> "5" [] n = 6 -> "6" [] n = 7 -> "7"
              [] n = 8 -> "8" [] OTHER -> "9"

\* the n-th suffix produced by randomUUID(): no two calls give the same one
randomUUID(n) == <<"u", Digit(n \div 10), Digit(n % 10)>>

----------------------------------------------------------------------------
(* The built-in corpus and the inputs of the calls *)

\* Text literals.  The letters stand one-to-one for the letters of the
\* source's alphabet (the key terms of the chat scorer are transliterated
\* letter by letter: s-t-r-a-t-e-g-i-q is the nine-letter first key term).
sAbcAbc    == <<"A", "b", "c", " ", "a", "b", "c">>
sAbc       == <<"a", "b", "c">>
sABC       == <<"A", "B", "C">>
sAbcx      == <<"a", "b", "c", "x">>
sAb        == <<"a", "b">>
sXyz       == <<"x", "y", "z">>
sXyzCap    == <<"X", "y", "z">>
sCat       == <<"c", "a", "t">>
sCcc       == <<"c", "c", "c">>
sZzz       == <<"z", "z", "z">>
sT         == <<"T">>
sC         == <<"C">>
sX         == <<"X">>
sA         == <<"a">>
sB         == <<"b">>
sTelo      == <<"t", "e", "l", "o">>
sAbcabcXyz == <<"a", "b", "c", "a", "b", "c", " ", "x", "y", "z">>
sTeloCcc   == <<"t", "e", "l", "o", " ", "c", "c", "c">>
sAbcSpAbc  == <<"a", "b", "c", " ", "a", "b", "c">>

\* mpt-knowledge.ts: the built-in entries; their ids are hand-assigned,
\* pairwise distinct, and none carries the provenance prefix
Corpus ==
    << [id |-> <<"b", "1">>, title |-> sAbcAbc, category |-> sCat,
        content |-> sAbcabcXyz, tags |-> <<sAbc, sAbcx>>],
       [id |-> <<"b", "2">>, title |-> sXyzCap, category |-> sAbc,
        content |-> sTeloCcc, tags |-> <<sXyz>>] >>

\* bodies of POST /api/knowledge-base requests
AddInputs ==
    { [title |-> sT, category |-> sC, content |-> sX, tags |-> <<sA, sB>>],
      [title |-> sAbc, category |-> sXyz, content |-> sAbcSpAbc,
       tags |-> <<sAbc, sAbc>>],
      [title |-> sT, category |-> sC, content |-> sX,
       tags |-> << <<" ", "a">>, <<"b", " ">> >>],
      [title |-> sT, category |-> sC, content |-> sTelo,
       tags |-> << <<"a", ",", "b">> >>],
      [title |-> sABC, category |-> sTelo, content |-> sX,
       tags |-> <<sA, <<>> >>] }

\* ids passed to deleteScript: built-in ids, built-in ids with the prefix
\* prepended, generated ids, generated suffixes without the prefix, and
\* near misses of the prefix
IdInputs ==
    { Corpus[i].id : i \in 1..Len(Corpus) }
    \cup { Prefix \o Corpus[i].id : i \in 1..Len(Corpus) }
    \cup { Prefix \o randomUUID(n) : n \in 1..MaxIssued }
    \cup { randomUUID(1), <<>>, Prefix,
           <<"C">> \o Tail(Prefix) \o randomUUID(1) }

QueryInputs ==
    { <<>>, <<"\t", " ">>,
      sABC \o <<" ">> \o sXyz, sAb \o <<" ">> \o sAbc,
      sAbc \o <<" ">> \o sAbc, <<" ">> \o sAbcx \o <<"\t">>, sZzz,
      sAb, sTelo }

MessageInputs ==
    { <<>>, sAbc, sAbcx \o <<" ">> \o sTelo, <<"T", "E", "L", "O">>,
      sXyz \o <<" ">> \o sAbcx \o <<" ">> \o sAbcx }

LimitInputs == {0, 1}

----------------------------------------------------------------------------
(* getAllScripts *)

\* .filter(Boolean) on an array of strings: the empty string is falsy
filterBoolean(arr) == SelectSeq(arr, LAMBDA t : t # <<>>)

\* The tags of a row with repeated tags dropped.
parseTagsDeduplicated(tagsStr) ==
    LET parts == split(tagsStr, ",")
        tags == filterBoolean([i \in 1..Len(parts) |-> trim(parts[i])])
        firsts == {i \in 1..Len(tags) : \A j \in 1..(i - 1) : tags[j] # tags[i]}
        nth(k) == CHOOSE i \in firsts : Cardinality({x \in firsts : x < i}) = k - 1
    IN  [k \in 1..Cardinality(firsts) |-> tags[nth(k)]]

\* s.tags.split(",").map((t) => t.trim()).filter(Boolean)
parseTags(tagsStr) ==
    LET parts == split(tagsStr, ",")
    IN  filterBoolean([i \in 1..Len(parts) |-> trim(parts[i])])

customMapped(rows) ==
    [i \in 1..Len(rows) |->
        [id |-> rows[i].id, title |-> rows[i].title,
         category |-> rows[i].category, content |-> rows[i].content,
         tags |-> parseTags(rows[i].tags), isCustom |-> TRUE]]

staticWithFlag(kb) ==
    [i \in 1..Len(kb) |->
        [id |-> kb[i].id, title |-> kb[i].title, category |-> kb[i].category,
         content |-> kb[i].content, tags |-> kb[i].tags, isCustom |-> FALSE]]

\* getAllScripts putting the custom entries first
getAllScriptsCustomFirst(kb, rows) == customMapped(rows) \o staticWithFlag(kb)

\* the value getAllScripts() resolves to when the select returns rows
getAllScripts(kb, rows) == staticWithFlag(kb) \o customMapped(rows)

----------------------------------------------------------------------------
(* Scoring and ranking *)

\* script.tags.some((tag) => tag.toLowerCase().includes(term))
tagsSome(tags, term) ==
    \E i \in 1..Len(tags) : includes(toLowerCase(tags[i]), term)

\* the term loop adding +7 for every tag that contains the term
RECURSIVE scoreTermsPerTag(_, _, _)
scoreTermsPerTag(terms, script, score) ==
    IF terms = <<>> THEN score
    ELSE LET term == Head(terms)
             s1 == IF includes(toLowerCase(script.title), term)
                   THEN score + 10 ELSE score
             s2 == IF includes(toLowerCase(script.category), term)
                   THEN s1 + 5 ELSE s1
             s3 == s2 + 7 * Cardinality({i \in 1..Len(script.tags) :
                              includes(toLowerCase(script.tags[i]), term)})
             s4 == IF includes(toLowerCase(script.content), term)
                   THEN s3 + 2 ELSE s3
         IN  scoreTermsPerTag(Tail(terms), script, s4)

\* the term loop assigning the weight ("score = 10") instead of adding it
RECURSIVE scoreTermsOverwrite(_, _, _)
scoreTermsOverwrite(terms, script, score) ==
    IF terms = <<>> THEN score
    ELSE LET term == Head(terms)
             s1 == IF includes(toLowerCase(script.title), term) THEN 10 ELSE score
             s2 == IF includes(toLowerCase(script.category), term) THEN 5 ELSE s1
             s3 == IF tagsSome(script.tags, term) THEN 7 ELSE s2
             s4 == IF includes(toLowerCase(script.content), term) THEN 2 ELSE s3
         IN  scoreTermsOverwrite(Tail(terms), script, s4)

\* The term loop giving nothing for a match in the title.
RECURSIVE scoreTermsNoTitle(_, _, _)
scoreTermsNoTitle(terms, script, score) ==
    IF terms = <<>> THEN score
    ELSE LET term == Head(terms)
             s2 == IF includes(toLowerCase(script.category), term)
                   THEN score + 5 ELSE score
             s3 == IF tagsSome(script.tags, term) THEN s2 + 7 ELSE s2
             s4 == IF includes(toLowerCase(script.content), term)
                   THEN s3 + 2 ELSE s3
         IN  scoreTermsNoTitle(Tail(terms), script, s4)

\* the loop "for (const term of searchTerms)" of searchScripts and of
\* findRelevantScriptsForChat, entered with the running score
RECURSIVE scoreTerms(_, _, _)
scoreTerms(terms, script, score) ==
    IF terms = <<>> THEN score
    ELSE LET term == Head(terms)
             s1 == IF includes(toLowerCase(script.title), term)
                   THEN score + 10 ELSE score
             s2 == IF includes(toLowerCase(script.category), term)
                   THEN s1 + 5 ELSE s1
             s3 == IF tagsSome(script.tags, term) THEN s2 + 7 ELSE s2
             s4 == IF includes(toLowerCase(script.content), term)
                   THEN s3 + 2 ELSE s3
         IN  scoreTerms(Tail(terms), script, s4)

\* the ten key terms of the chat scorer, transliterated letter by letter
keyTerms ==
    << <<"s", "t", "r", "a", "t", "e", "g", "i", "q">>,
       <<"p", "o", "t", "r", "e", "b", "n", "o", "s", "t">>,
       <<"i", "d", "e", "n", "t", "i", "h", "n", "o", "s", "t">>,
       <<"z", "a", "p", "r", "o", "s">>,
       <<"w", "m", "o", "c", "i">>,
       <<"t", "e", "l", "o">>,
       <<"i", "n", "t", "e", "g", "r", "a", "c">>,
       <<"m", "e", "t", "a", "p", "o", "z", "i", "c">>,
       <<"s", "e", "s", "s", "i", "q">>,
       <<"p", "r", "i", "n", "c", "i", "p">> >>

\* the key-term loop looking at the category as well
RECURSIVE scoreKeyTermsWithCategory(_, _, _, _)
scoreKeyTermsWithCategory(keys, message, script, score) ==
    IF keys = <<>> THEN score
    ELSE LET key == Head(keys)
             hit == /\ includes(toLowerCase(message), key)
                    /\ \/ includes(toLowerCase(script.title), key)
                       \/ includes(toLowerCase(script.content), key)
                       \/ includes(toLowerCase(script.category), key)
                       \/ tagsSome(script.tags, key)
         IN  scoreKeyTermsWithCategory(Tail(keys), message, script,
                                       IF hit THEN score + 5 ELSE score)

\* the loop "for (const key of keyTerms)" of findRelevantScriptsForChat
RECURSIVE scoreKeyTerms(_, _, _, _)
scoreKeyTerms(keys, message, script, score) ==
    IF keys = <<>> THEN score
    ELSE LET key == Head(keys)
             hit == /\ includes(toLowerCase(message), key)
                    /\ \/ includes(toLowerCase(script.title), key)
                       \/ includes(toLowerCase(script.content), key)
                       \/ tagsSome(script.tags, key)
         IN  scoreKeyTerms(Tail(keys), message, script,
                           IF hit THEN score + 5 ELSE score)

\* the search tokens with the length filter off by one
searchTermsOfLonger1(query) ==
    SelectSeq(splitWhitespace(toLowerCase(query)), LAMBDA term : Len(term) > 1)

\* The search tokens with every repeated token dropped.
searchTermsOfDistinct(query) ==
    LET terms == SelectSeq(splitWhitespace(toLowerCase(query)), LAMBDA term : Len(term) > 2)
        firsts == {i \in 1..Len(terms) : \A j \in 1..(i - 1) : terms[j] # terms[i]}
        nth(k) == CHOOSE i \in firsts : Cardinality({x \in firsts : x < i}) = k - 1
    IN  [k \in 1..Cardinality(firsts) |-> terms[nth(k)]]

\* query.toLowerCase().split(/\s+/).filter((term) => term.length > 2)
searchTermsOf(query) ==
    SelectSeq(splitWhitespace(toLowerCase(query)), LAMBDA term : Len(term) > 2)

\* message.toLowerCase().split(/\s+/).filter((term) => term.length > 3)
chatTermsOf(message) ==
    SelectSeq(splitWhitespace(toLowerCase(message)), LAMBDA term : Len(term) > 3)

\* the score searchScripts gives a script
searchScore(query, script) == scoreTerms(searchTermsOf(query), script, 0)

\* the score findRelevantScriptsForChat gives a script
chatScore(message, script) ==
    scoreKeyTerms(keyTerms, message, script,
                  scoreTerms(chatTermsOf(message), script, 0))

\* the insertion step of an unstable sort: x goes in front of its equals
RECURSIVE insertByScoreUnstable(_, _)
insertByScoreUnstable(sorted, x) ==
    IF sorted = <<>> THEN <<x>>
    ELSE IF sorted[Len(sorted)].score > x.score THEN Append(sorted, x)
    ELSE Append(insertByScoreUnstable(SubSeq(sorted, 1, Len(sorted) - 1), x),
                sorted[Len(sorted)])

\* x put into an array already sorted by score descending, behind every
\* element whose score is not smaller
RECURSIVE insertByScore(_, _)
insertByScore(sorted, x) ==
    IF sorted = <<>> THEN <<x>>
    ELSE IF sorted[Len(sorted)].score >= x.score THEN Append(sorted, x)
    ELSE Append(insertByScore(SubSeq(sorted, 1, Len(sorted) - 1), x),
                sorted[Len(sorted)])

\* .sort((a, b) => b.score - a.score): Array.prototype.sort is stable
RECURSIVE sortByScore(_)
sortByScore(arr) ==
    IF arr = <<>> THEN <<>>
    ELSE insertByScore(sortByScore(SubSeq(arr, 1, Len(arr) - 1)), arr[Len(arr)])

\* ranking that cuts to the limit before it sorts
rankSliceFirst(scoredScripts, limit) ==
    LET kept  == SelectSeq(scoredScripts, LAMBDA s : s.score > 0)
        first == sortByScore(slice0(kept, limit))
    IN  [i \in 1..Len(first) |-> first[i].script]

\* ranking that keeps the entries of score 0
rankKeepZero(scoredScripts, limit) ==
    LET kept  == SelectSeq(scoredScripts, LAMBDA s : s.score >= 0)
        first == slice0(sortByScore(kept), limit)
    IN  [i \in 1..Len(first) |-> first[i].script]

\* .filter((s) => s.score > 0).sort(...).slice(0, limit).map((s) => s.script)
rank(scoredScripts, limit) ==
    LET kept  == SelectSeq(scoredScripts, LAMBDA s : s.score > 0)
        first == slice0(sortByScore(kept), limit)
    IN  [i \in 1..Len(first) |-> first[i].script]

\* searchScripts applying the limit to a blank query too
searchResultSliced(allScripts, query, limit) ==
    IF trim(query) = <<>> THEN slice0(allScripts, limit)
    ELSE rank([i \in 1..Len(allScripts) |->
                  [script |-> allScripts[i],
                   score |-> searchScore(query, allScripts[i])]], limit)

\* the value searchScripts(query, limit) resolves to, given allScripts
searchResult(allScripts, query, limit) ==
    IF trim(query) = <<>> THEN allScripts
    ELSE rank([i \in 1..Len(allScripts) |->
                  [script |-> allScripts[i],
                   score |-> searchScore(query, allScripts[i])]], limit)

\* the value findRelevantScriptsForChat(message, limit) resolves to
chatResult(allScripts, message, limit) ==
    rank([i \in 1..Len(allScripts) |->
             [script |-> allScripts[i],
              score |-> chatScore(message, allScripts[i])]], limit)

-----------------------------------------------------------------------------
(* findRelevantScripts: the chat scorer of the routes before the store, over
   the built-in scripts alone *)

\* The inline scorer keeping the tokens longer than 2 characters.
inlineTermsOfLonger2(message) ==
    SelectSeq(splitWhitespace(toLowerCase(message)), LAMBDA term : Len(term) > 2)

\* message.toLowerCase().split(/\s+/).filter(term => term.length > 3)
inlineTermsOf(message) ==
    SelectSeq(splitWhitespace(toLowerCase(message)), LAMBDA term : Len(term) > 3)

\* for (const term of searchTerms) { ... }
RECURSIVE inlineScoreTerms(_, _, _)
inlineScoreTerms(terms, script, score) ==
    IF terms = <<>> THEN score
    ELSE LET term == Head(terms)
             inTitle == includes(toLowerCase(script.title), term)
             inCategory == includes(toLowerCase(script.category), term)
             inTags == \E k \in 1..Len(script.tags) :
                           includes(toLowerCase(script.tags[k]), term)
             inContent == includes(toLowerCase(script.content), term)
         IN  inlineScoreTerms(Tail(terms), script,
                 score + (IF inTitle THEN 10 ELSE 0) + (IF inCategory THEN 5 ELSE 0)
                       + (IF inTags THEN 7 ELSE 0) + (IF inContent THEN 2 ELSE 0))

\* the key terms of the inline scorer, transliterated letter by letter
inlineKeyTerms ==
    << <<"s", "t", "r", "a", "t", "e", "g", "i", "q">>,
       <<"p", "o", "t", "r", "e", "b", "n", "o", "s", "t">>,
       <<"i", "d", "e", "n", "t", "i", "h", "n", "o", "s", "t">>,
       <<"z", "a", "p", "r", "o", "s">>,
       <<"w", "m", "o", "c", "i">>,
       <<"t", "e", "l", "o">>,
       <<"i", "n", "t", "e", "g", "r", "a", "c">>,
       <<"m", "e", "t", "a", "p", "o", "z", "i", "c">>,
       <<"s", "e", "s", "s", "i", "q">>,
       <<"p", "r", "i", "n", "c", "i", "p">> >>

\* for (const key of keyTerms) { ... }
RECURSIVE inlineScoreKeyTerms(_, _, _, _)
inlineScoreKeyTerms(keys, message, script, score) ==
    IF keys = <<>> THEN score
    ELSE LET key == Head(keys)
             inEntry == \/ includes(toLowerCase(script.title), key)
                        \/ includes(toLowerCase(script.content), key)
                        \/ \E k \in 1..Len(script.tags) :
                               includes(toLowerCase(script.tags[k]), key)
         IN  inlineScoreKeyTerms(Tail(keys), message, script,
                 IF includes(toLowerCase(message), key) /\ inEntry
                 THEN score + 5 ELSE score)

\* the score findRelevantScripts gives a built-in script
inlineScore(message, script) ==
    inlineScoreKeyTerms(inlineKeyTerms, message, script,
                        inlineScoreTerms(inlineTermsOf(message), script, 0))

\* findRelevantScripts(message, limit)
findRelevantScripts(kb, message, limit) ==
    LET scoredScripts == [i \in 1..Len(kb) |->
                             [script |-> kb[i], score |-> inlineScore(message, kb[i])]]
        kept == SelectSeq(scoredScripts, LAMBDA s : s.score > 0)
        first == slice0(sortByScore(kept), limit)
    IN  [i \in 1..Len(first) |-> first[i].script]

----------------------------------------------------------------------------
(* The calls *)

NoData == [title |-> <<>>, category |-> <<>>, content |-> <<>>, tags |-> <<>>]

\* a completed call: dbOps counts its statements against custom_scripts;
\* limit is the limit in force, limitPassed whether the caller passed one
Call(op, id, data, text, limit, ret, dbOps) ==
    [op |-> op, id |-> id, data |-> data, text |-> text, limit |-> limit,
     limitPassed |-> TRUE, ret |-> ret, dbOps |-> dbOps]

\* The last request a route has handled: what it was asked, the responses it
\* sent, whether it called deleteScript, the statements it had the store
\* execute, for the chat the scripts found and the messages passed on, and
\* what failed under it ("store", "backend" or "none").
Http(route, id, text, history, sent, deleteCalled, dbOps, relevant, messages, failed) ==
    [route |-> route, id |-> id, text |-> text, history |-> history, sent |-> sent,
     deleteCalled |-> deleteCalled, dbOps |-> dbOps, relevant |-> relevant,
     messages |-> messages, failed |-> failed]

Reply(status, body, scriptReference) ==
    [status |-> status, body |-> body, scriptReference |-> scriptReference]

NoHttp == Http("none", <<>>, <<>>, <<>>, <<>>, FALSE, 0, <<>>, <<>>, "none")

\* The requests the server handles at the same time.
Clients == {"r1", "r2"}

\* A request slot with no call in it.
Idle ==
    [pc |-> "idle", op |-> "none", id |-> <<>>, data |-> NoData, text |-> <<>>,
     limit |-> 0, todo |-> <<>>, resps |-> <<>>, failed |-> FALSE,
     outcome |-> "none", ret |-> <<>>, dbOps |-> 0,
     linRet |-> <<>>, linStoreOk |-> TRUE, snap |-> <<>>,
     addedBefore |-> {}, deletedBefore |-> {}]

NoLog == [added |-> {}, deleted |-> {}, targets |-> {}]

\* No session-storage call made yet
NoSessionOp == [op |-> "none", id |-> <<>>, threw |-> FALSE, history |-> <<>>]

\* A browser that has never opened the page: nothing stored, nothing selected
ClientInit ==
    /\ localStorage = <<>>
    /\ made = 0
    /\ appended = 0
    /\ sessionOp = NoSessionOp
    /\ currentSession = <<>>
    /\ sessions = <<>>
    /\ pending = <<>>

Init ==
    /\ mptKnowledgeBase = Corpus
    /\ customScripts = <<>>
    /\ issued = 0
    /\ call = Call("none", <<>>, NoData, <<>>, 0, <<>>, 0)
    /\ procs = [c \in Clients |-> Idle]
    /\ log = NoLog
    /\ http = NoHttp
    /\ ClientInit

\* await getAllScripts()
listAll ==
    /\ call' = Call("getAllScripts", <<>>, NoData, <<>>, 0,
                    getAllScripts(mptKnowledgeBase, customScripts), 1)
    /\ UNCHANGED <<mptKnowledgeBase, customScripts, issued>>

\* addScript with any of its fields computed by other operators: the id,
\* the stored tags string and the returned tags
addScriptWith(data, id, tagsStr, retTags) ==
    /\ issued < MaxIssued
    /\ customScripts' =
           Append(customScripts,
                  [id |-> id, title |-> data.title, category |-> data.category,
                   content |-> data.content, tags |-> tagsStr])
    /\ call' = Call("addScript", <<>>, data, <<>>, 0,
                    [id |-> id, title |-> data.title, category |-> data.category,
                     content |-> data.content, tags |-> retTags], 1)
    /\ issued' = issued + 1
    /\ UNCHANGED mptKnowledgeBase

\* addScript deriving the id from the title instead of a fresh suffix
addScriptTitleId(data) ==
    addScriptWith(data, Prefix \o data.title, join(data.tags, ","), data.tags)

\* addScript returning the tags as re-read from the stored string
addScriptRoundTrip(data) ==
    addScriptWith(data, Prefix \o randomUUID(issued + 1), join(data.tags, ","),
                  parseTags(join(data.tags, ",")))

\* addScript joining the tags with a blank instead of a comma
addScriptJoinSpace(data) ==
    addScriptWith(data, Prefix \o randomUUID(issued + 1), join(data.tags, " "),
                  data.tags)

\* addScript leaving the provenance prefix off the id
addScriptNoPrefix(data) ==
    addScriptWith(data, randomUUID(issued + 1), join(data.tags, ","), data.tags)

\* addScript numbering the id by the rows in the table
addScriptCountId(data) ==
    addScriptWith(data, Prefix \o randomUUID(Len(customScripts) + 1),
                  join(data.tags, ","), data.tags)

\* await addScript(data)
addScript(data) ==
    /\ issued < MaxIssued
    /\ LET id      == Prefix \o randomUUID(issued + 1)
           tagsStr == join(data.tags, ",")
       IN  /\ customScripts' =
                  Append(customScripts,
                         [id |-> id, title |-> data.title,
                          category |-> data.category, content |-> data.content,
                          tags |-> tagsStr])
           /\ call' = Call("addScript", <<>>, data, <<>>, 0,
                           [id |-> id, title |-> data.title,
                            category |-> data.category,
                            content |-> data.content, tags |-> data.tags], 1)
    /\ issued' = issued + 1
    /\ UNCHANGED mptKnowledgeBase

\* deleteScript deleting by id from the merged list, without the prefix guard
deleteScriptMerged(id) ==
    /\ mptKnowledgeBase' = SelectSeq(mptKnowledgeBase, LAMBDA r : r.id # id)
    /\ customScripts' = SelectSeq(customScripts, LAMBDA r : r.id # id)
    /\ call' = Call("deleteScript", id, NoData, <<>>, 0,
                    \/ \E i \in 1..Len(customScripts) : customScripts[i].id = id
                    \/ \E i \in 1..Len(mptKnowledgeBase) :
                           mptKnowledgeBase[i].id = id, 1)
    /\ UNCHANGED issued

\* deleteScript without the early return on a non-prefixed id
deleteScriptNoGuard(id) ==
    LET result == SelectSeq(customScripts, LAMBDA r : r.id = id)
    IN  /\ customScripts' = SelectSeq(customScripts, LAMBDA r : r.id # id)
        /\ call' = Call("deleteScript", id, NoData, <<>>, 0, Len(result) > 0, 1)
        /\ UNCHANGED <<mptKnowledgeBase, issued>>

\* deleteScript reporting success without looking at the returned rows
deleteScriptAlwaysTrue(id) ==
    IF ~startsWith(id, Prefix)
    THEN /\ call' = Call("deleteScript", id, NoData, <<>>, 0, FALSE, 0)
         /\ UNCHANGED <<mptKnowledgeBase, customScripts, issued>>
    ELSE /\ customScripts' = SelectSeq(customScripts, LAMBDA r : r.id # id)
         /\ call' = Call("deleteScript", id, NoData, <<>>, 0, TRUE, 1)
         /\ UNCHANGED <<mptKnowledgeBase, issued>>

\* await deleteScript(id)
deleteScript(id) ==
    IF ~startsWith(id, Prefix)
    THEN /\ call' = Call("deleteScript", id, NoData, <<>>, 0, FALSE, 0)
         /\ UNCHANGED <<mptKnowledgeBase, customScripts, issued>>
    ELSE LET result == SelectSeq(customScripts, LAMBDA r : r.id = id)
         IN  /\ customScripts' = SelectSeq(customScripts, LAMBDA r : r.id # id)
             /\ call' = Call("deleteScript", id, NoData, <<>>, 0,
                             Len(result) > 0, 1)
             /\ UNCHANGED <<mptKnowledgeBase, issued>>

\* await searchScripts(query, limit)
searchScripts(query, limit) ==
    /\ call' = Call("searchScripts", <<>>, NoData, query, limit,
                    searchResult(getAllScripts(mptKnowledgeBase, customScripts),
                                 query, limit), 1)
    /\ UNCHANGED <<mptKnowledgeBase, customScripts, issued>>

\* await findRelevantScriptsForChat(message, limit)
findRelevantScriptsForChat(message, limit) ==
    /\ call' = Call("findRelevantScriptsForChat", <<>>, NoData, message, limit,
                    chatResult(getAllScripts(mptKnowledgeBase, customScripts),
                               message, limit), 1)
    /\ UNCHANGED <<mptKnowledgeBase, customScripts, issued>>

\* "limit = 10": the limit of a searchScripts call that passes none
DefaultSearchLimit == 10

\* "limit = 3": the limit of a findRelevantScriptsForChat call that passes none
DefaultChatLimit == 3

\* await searchScripts(query)
searchScriptsNoLimit(query) ==
    /\ call' = [Call("searchScripts", <<>>, NoData, query, DefaultSearchLimit,
                     searchResult(getAllScripts(mptKnowledgeBase, customScripts),
                                  query, DefaultSearchLimit), 1)
                EXCEPT !.limitPassed = FALSE]
    /\ UNCHANGED <<mptKnowledgeBase, customScripts, issued>>

\* await findRelevantScriptsForChat(message)
findRelevantScriptsForChatNoLimit(message) ==
    /\ call' = [Call("findRelevantScriptsForChat", <<>>, NoData, message,
                     DefaultChatLimit,
                     chatResult(getAllScripts(mptKnowledgeBase, customScripts),
                                message, DefaultChatLimit), 1)
                EXCEPT !.limitPassed = FALSE]
    /\ UNCHANGED <<mptKnowledgeBase, customScripts, issued>>

Next ==
    \/ listAll /\ UNCHANGED <<concVars, routeVars, clientVars>>
    \/ (\E data \in AddInputs : addScript(data)) /\ UNCHANGED <<concVars, routeVars, clientVars>>
    \/ (\E id \in IdInputs : deleteScript(id)) /\ UNCHANGED <<concVars, routeVars, clientVars>>
    \/ (\E query \in QueryInputs, limit \in LimitInputs : searchScripts(query, limit)) /\ UNCHANGED <<concVars, routeVars, clientVars>>
    \/ (\E message \in MessageInputs, limit \in LimitInputs :
           findRelevantScriptsForChat(message, limit)) /\ UNCHANGED <<concVars, routeVars, clientVars>>
    \/ (\E query \in QueryInputs : searchScriptsNoLimit(query)) /\ UNCHANGED <<concVars, routeVars, clientVars>>
    \/ (\E message \in MessageInputs : findRelevantScriptsForChatNoLimit(message)) /\ UNCHANGED <<concVars, routeVars, clientVars>>

Spec == Init /\ [][Next]_vars

-----------------------------------------------------------------------------
\* Calls running at the same time.  An async function runs up to its await
\* in one piece, the store executes the awaited statement atomically at some
\* later moment (or rejects it), and the rest of the function runs in one piece
\* when the answer has arrived.

\* What the calls of the concurrent requests are made with.
ConcData == [title |-> sAbc, category |-> sCat, content |-> sTelo, tags |-> <<sAbcx>>]
ConcIds == {Prefix \o randomUUID(1), <<"b", "1">>}
ConcQuery == <<"a", "b", "c", " ", "a", "b", "c">>
ConcMessage == <<"a", "b", "c", "x", " ", "t", "e", "l", "o">>

\* A select answered from a copy of the table taken when the server started.
selectRowsCached(rows) == <<>>

\* db.select().from(customScripts): the rows of the table as they are now.
selectRows(rows) == rows

\* The row addScript inserts and the entry it returns.
insertedRow(p) ==
    [id |-> p.id, title |-> p.data.title, category |-> p.data.category,
     content |-> p.data.content, tags |-> join(p.data.tags, ",")]

addedEntry(p) ==
    [id |-> p.id, title |-> p.data.title, category |-> p.data.category,
     content |-> p.data.content, tags |-> p.data.tags]

RowsWithId(rows, id) == SelectSeq(rows, LAMBDA r : r.id = id)

\* A delete that first looks the row up and then deletes it.
statementsOfCheckThenDelete(op, id) ==
    CASE op \in {"getAllScripts", "searchScripts", "findRelevantScriptsForChat"}
            -> <<"select">>
      [] op = "addScript" -> <<"insert">>
      [] op = "deleteScript" ->
            IF startsWith(id, Prefix) THEN <<"selectById", "deleteReturning">> ELSE <<>>

\* The store statements a call awaits, in order.
statementsOf(op, id) ==
    CASE op \in {"getAllScripts", "searchScripts", "findRelevantScriptsForChat"}
            -> <<"select">>
      [] op = "addScript" -> <<"insert">>
      [] op = "deleteScript" ->
            IF startsWith(id, Prefix) THEN <<"deleteReturning">> ELSE <<>>

\* One statement executed by the store: the table after it and its answer.
execStatement(st, p, rows) ==
    CASE st = "select" -> [store |-> rows, resp |-> selectRows(rows)]
      [] st = "selectById" -> [store |-> rows, resp |-> RowsWithId(rows, p.id)]
      [] st = "insert" -> [store |-> Append(rows, insertedRow(p)), resp |-> <<>>]
      [] st = "deleteReturning" ->
            [store |-> SelectSeq(rows, LAMBDA r : r.id # p.id),
             resp |-> RowsWithId(rows, p.id)]

\* What the call returns once its statements have been answered.
resultOf(p) ==
    CASE p.op = "getAllScripts" -> getAllScripts(mptKnowledgeBase, p.resps[1])
      [] p.op = "searchScripts" ->
            searchResult(getAllScripts(mptKnowledgeBase, p.resps[1]), p.text, p.limit)
      [] p.op = "findRelevantScriptsForChat" ->
            chatResult(getAllScripts(mptKnowledgeBase, p.resps[1]), p.text, p.limit)
      [] p.op = "addScript" -> addedEntry(p)
      [] p.op = "deleteScript" ->
            IF p.resps = <<>> THEN FALSE ELSE Len(p.resps[1]) > 0

\* A read that swallows the rejection and answers with the built-ins alone.
settleFallback(p) ==
    IF p.failed
    THEN IF p.op = "getAllScripts"
         THEN [outcome |-> "returned", ret |-> getAllScripts(mptKnowledgeBase, <<>>)]
         ELSE [outcome |-> "threw", ret |-> <<>>]
    ELSE [outcome |-> "returned", ret |-> resultOf(p)]

\* How the call ends: no function of the engine has a try/catch, so a
\* rejected statement rejects the call.
settle(p) ==
    IF p.failed
    THEN [outcome |-> "threw", ret |-> <<>>]
    ELSE [outcome |-> "returned", ret |-> resultOf(p)]

\* GET /api/knowledge-base and /search: 200 with the result, or 500.
routeReply(p) ==
    IF p.outcome = "threw"
    THEN [status |-> 500, body |-> "error"]
    ELSE [status |-> 200, body |-> p.ret]

\* The same call made alone on the table `rows`: its result and the table
\* it leaves.
SeqRet(p, rows) ==
    CASE p.op = "getAllScripts" -> getAllScripts(mptKnowledgeBase, rows)
      [] p.op = "searchScripts" ->
            searchResult(getAllScripts(mptKnowledgeBase, rows), p.text, p.limit)
      [] p.op = "findRelevantScriptsForChat" ->
            chatResult(getAllScripts(mptKnowledgeBase, rows), p.text, p.limit)
      [] p.op = "addScript" -> addedEntry(p)
      [] p.op = "deleteScript" ->
            startsWith(p.id, Prefix) /\ \E i \in 1..Len(rows) : rows[i].id = p.id

SeqStore(p, rows) ==
    CASE p.op = "addScript" -> Append(rows, insertedRow(p))
      [] p.op = "deleteScript" /\ startsWith(p.id, Prefix) ->
            SelectSeq(rows, LAMBDA r : r.id # p.id)
      [] OTHER -> rows

IsRead(op) == op \in {"getAllScripts", "searchScripts", "findRelevantScriptsForChat"}

\* The call starts: everything up to its first await.
invoke(c, op, id, data, text, limit) ==
    /\ procs[c].pc \in {"idle", "done"}
    /\ op = "addScript" => issued < MaxIssued
    /\ LET theId == IF op = "addScript" THEN Prefix \o randomUUID(issued + 1) ELSE id
           started == [Idle EXCEPT !.pc = "await", !.op = op, !.id = theId,
                                   !.data = data, !.text = text, !.limit = limit,
                                   !.todo = statementsOf(op, theId),
                                   !.linRet = FALSE,
                                   !.addedBefore = IF IsRead(op) THEN log.added ELSE {},
                                   !.deletedBefore = IF IsRead(op) THEN log.deleted ELSE {}]
           ended == settle(started)
       IN  /\ issued' = IF op = "addScript" THEN issued + 1 ELSE issued
           /\ procs' = [procs EXCEPT ![c] =
                  IF started.todo = <<>>
                  THEN [started EXCEPT !.pc = "done", !.outcome = ended.outcome,
                                       !.ret = ended.ret,
                                       !.linRet = SeqRet(started, customScripts)]
                  ELSE started]
           /\ log' = IF op = "deleteScript" /\ startsWith(id, Prefix)
                     THEN [log EXCEPT !.targets = @ \cup {id}]
                     ELSE log
    /\ UNCHANGED <<mptKnowledgeBase, customScripts, call>>

\* The store executes the statement the call is waiting for.
dbExec(c) ==
    /\ procs[c].pc = "await"
    /\ LET p == procs[c]
           r == execStatement(Head(p.todo), p, customScripts)
       IN  /\ customScripts' = r.store
           /\ procs' = [d \in Clients |->
                  IF d = c
                  THEN [p EXCEPT !.todo = Tail(p.todo),
                                 !.resps = Append(p.resps, r.resp),
                                 !.dbOps = p.dbOps + 1,
                                 !.pc = IF Tail(p.todo) = <<>> THEN "resume" ELSE "await",
                                 !.linRet = SeqRet(p, customScripts),
                                 !.linStoreOk = r.store = SeqStore(p, customScripts),
                                 !.snap = IF IsRead(p.op) THEN customScripts ELSE <<>>]
                  ELSE procs[d]]
    /\ UNCHANGED <<mptKnowledgeBase, issued, call, log>>

\* The store rejects the statement: the await throws.
dbFail(c) ==
    /\ procs[c].pc = "await"
    /\ procs' = [procs EXCEPT ![c] =
           [@ EXCEPT !.todo = <<>>, !.failed = TRUE, !.dbOps = @ + 1, !.pc = "resume"]]
    /\ UNCHANGED <<mptKnowledgeBase, customScripts, issued, call, log>>

\* The rest of the function after the await, up to its return or throw.
resume(c) ==
    /\ procs[c].pc = "resume"
    /\ LET p == procs[c]
           ended == settle(p)
       IN  /\ procs' = [procs EXCEPT ![c] =
                  [p EXCEPT !.pc = "done", !.outcome = ended.outcome, !.ret = ended.ret]]
           /\ log' = IF ended.outcome # "returned" THEN log
                     ELSE IF p.op = "addScript"
                          THEN [log EXCEPT !.added = @ \cup {p.id}]
                     ELSE IF p.op = "deleteScript" /\ ended.ret = TRUE
                          THEN [log EXCEPT !.deleted = @ \cup {p.id}]
                     ELSE log
    /\ UNCHANGED <<mptKnowledgeBase, customScripts, issued, call>>

NextConc ==
    \/ (\E c \in Clients : invoke(c, "getAllScripts", <<>>, NoData, <<>>, 0)) /\ UNCHANGED <<routeVars, clientVars>>
    \/ (\E c \in Clients : invoke(c, "addScript", <<>>, ConcData, <<>>, 0)) /\ UNCHANGED <<routeVars, clientVars>>
    \/ (\E c \in Clients, id \in ConcIds : invoke(c, "deleteScript", id, NoData, <<>>, 0)) /\ UNCHANGED <<routeVars, clientVars>>
    \/ (\E c \in Clients : invoke(c, "searchScripts", <<>>, NoData, ConcQuery, DefaultSearchLimit)) /\ UNCHANGED <<routeVars, clientVars>>
    \/ (\E c \in Clients :
           invoke(c, "findRelevantScriptsForChat", <<>>, NoData, ConcMessage, DefaultChatLimit))
       /\ UNCHANGED <<routeVars, clientVars>>
    \/ (\E c \in Clients : dbExec(c)) /\ UNCHANGED <<routeVars, clientVars>>
    \/ (\E c \in Clients : dbFail(c)) /\ UNCHANGED <<routeVars, clientVars>>
    \/ (\E c \in Clients : resume(c)) /\ UNCHANGED <<routeVars, clientVars>>

SpecConc == Init /\ [][NextConc]_vars

-----------------------------------------------------------------------------
(* The HTTP routes of the knowledge base and of the chat *)

\* "findRelevantScriptsForChat(message, 2)": the limit the chat route passes
RouteChatLimit == 2

\* "history.slice(-10)": the history messages the chat route forwards
HistoryWindow == 10

\* "s.content.slice(0, 800)": the part of a script's content put in the prompt
PromptContentLimit == 800

\* Array.prototype.slice(-n): the last n elements
sliceLast(s, n) == IF Len(s) <= n THEN s ELSE SubSeq(s, Len(s) - n + 1, Len(s))

\* What the routes are asked with.
RouteAddInputs ==
    { [title |-> sAbc, category |-> sXyz, content |-> sAbcSpAbc, tags |-> <<sAbc, sAbc>>],
      [title |-> sT, category |-> sC, content |-> sTelo, tags |-> <<sAbcx>>] }

\* A history of n messages, user and assistant in turn, each with its own content.
HistoryOf(n) ==
    [i \in 1..n |-> [role |-> IF i % 2 = 1 THEN "user" ELSE "assistant",
                     content |-> <<"m", Digit(i \div 10), Digit(i % 10)>>]]

RouteQueryInputs == {<<>>, sAbc \o <<" ">> \o sAbc}

\* Chat requests: a message, the mode and the history sent with it.
RouteChatInputs ==
    { [message |-> <<>>, mode |-> "therapy", history |-> HistoryOf(0)],
      [message |-> sZzz, mode |-> "analysis", history |-> HistoryOf(10)],
      [message |-> sAbc, mode |-> "therapy", history |-> HistoryOf(11)],
      [message |-> sAbcx \o <<" ">> \o sTelo, mode |-> "analysis", history |-> HistoryOf(1)],
      [message |-> sAbcx \o <<" ">> \o sTelo, mode |-> "therapy", history |-> HistoryOf(12)] }

StoreUnchanged == UNCHANGED <<mptKnowledgeBase, customScripts, issued, call>>

\* GET /api/knowledge-base
routeList ==
    \/ /\ listAll
       /\ http' = Http("GET", <<>>, <<>>, <<>>, <<Reply(200, "scripts", <<>>)>>,
                       FALSE, call'.dbOps, call'.ret, <<>>, "none")
    \/ /\ StoreUnchanged
       /\ http' = Http("GET", <<>>, <<>>, <<>>, <<Reply(500, "error", <<>>)>>,
                       FALSE, 1, <<>>, <<>>, "store")

\* GET /api/knowledge-base/search?q=
routeSearch(query) ==
    \/ /\ searchScripts(query, DefaultSearchLimit)
       /\ http' = Http("SEARCH", <<>>, query, <<>>, <<Reply(200, "scripts", <<>>)>>,
                       FALSE, call'.dbOps, call'.ret, <<>>, "none")
    \/ /\ StoreUnchanged
       /\ http' = Http("SEARCH", <<>>, query, <<>>, <<Reply(500, "error", <<>>)>>,
                       FALSE, 1, <<>>, <<>>, "store")

\* POST /api/knowledge-base
routeAdd(data) ==
    \/ /\ addScript(data)
       /\ http' = Http("POST", call'.ret.id, <<>>, <<>>, <<Reply(201, "script", <<>>)>>,
                       FALSE, call'.dbOps, <<call'.ret>>, <<>>, "none")
    \/ /\ StoreUnchanged
       /\ http' = Http("POST", <<>>, <<>>, <<>>, <<Reply(500, "error", <<>>)>>,
                       FALSE, 1, <<>>, <<>>, "store")

\* The delete route without its own look at the prefix.
routeDeleteNoGuard(id) ==
    \/ /\ deleteScript(id)
       /\ http' = Http("DELETE", id, <<>>, <<>>,
                       <<IF call'.ret THEN Reply(200, "success", <<>>)
                                      ELSE Reply(404, "notFound", <<>>)>>,
                       TRUE, call'.dbOps, <<>>, <<>>, "none")
    \/ /\ StoreUnchanged
       /\ http' = Http("DELETE", id, <<>>, <<>>, <<Reply(500, "error", <<>>)>>,
                       TRUE, 1, <<>>, <<>>, "store")

\* DELETE /api/knowledge-base/:id
routeDelete(id) ==
    IF ~startsWith(id, Prefix)
    THEN /\ StoreUnchanged
         /\ http' = Http("DELETE", id, <<>>, <<>>, <<Reply(400, "notPermitted", <<>>)>>,
                         FALSE, 0, <<>>, <<>>, "none")
    ELSE \/ /\ deleteScript(id)
            /\ http' = Http("DELETE", id, <<>>, <<>>,
                            <<IF call'.ret THEN Reply(200, "success", <<>>)
                                           ELSE Reply(404, "notFound", <<>>)>>,
                            TRUE, call'.dbOps, <<>>, <<>>, "none")
         \/ /\ StoreUnchanged
            /\ http' = Http("DELETE", id, <<>>, <<>>, <<Reply(500, "error", <<>>)>>,
                            TRUE, 1, <<>>, <<>>, "store")

\* The "### title / content" blocks appended to the system prompt.
contextInfo(relevantScripts) ==
    [i \in 1..Len(relevantScripts) |->
        [title |-> relevantScripts[i].title,
         content |-> slice0(relevantScripts[i].content, PromptContentLimit)]]

\* The messages array passed to callCerebrasAPI.
chatMessages(mode, relevantScripts, history, message) ==
    <<[role |-> "system", content |-> <<mode>>, context |-> contextInfo(relevantScripts)]>>
    \o [i \in 1..Len(sliceLast(history, HistoryWindow)) |->
           [role |-> sliceLast(history, HistoryWindow)[i].role,
            content |-> sliceLast(history, HistoryWindow)[i].content,
            context |-> <<>>]]
    \o <<[role |-> "user", content |-> message, context |-> <<>>]>>

\* The reference taken from the last script found instead of the first.
scriptReferenceOfLast(relevantScripts) ==
    IF Len(relevantScripts) > 0
    THEN <<relevantScripts[Len(relevantScripts)].title>> ELSE <<>>

\* "relevantScripts.length > 0 ? relevantScripts[0].title : undefined"
scriptReferenceOf(relevantScripts) ==
    IF Len(relevantScripts) > 0 THEN <<relevantScripts[1].title>> ELSE <<>>

\* POST /api/chat
routeChat(message, mode, history) ==
    \/ /\ findRelevantScriptsForChat(message, RouteChatLimit)
       /\ \/ http' = Http("CHAT", <<>>, message, history,
                          <<Reply(200, "response", scriptReferenceOf(call'.ret))>>,
                          FALSE, call'.dbOps, call'.ret,
                          chatMessages(mode, call'.ret, history, message), "none")
          \/ http' = Http("CHAT", <<>>, message, history,
                          <<Reply(500, "error", <<>>)>>,
                          FALSE, call'.dbOps, call'.ret,
                          chatMessages(mode, call'.ret, history, message), "backend")
    \/ /\ StoreUnchanged
       /\ http' = Http("CHAT", <<>>, message, history, <<Reply(500, "error", <<>>)>>,
                       FALSE, 1, <<>>, <<>>, "store")

NextRoutes ==
    \/ routeList /\ UNCHANGED <<concVars, clientVars>>
    \/ (\E query \in RouteQueryInputs : routeSearch(query)) /\ UNCHANGED <<concVars, clientVars>>
    \/ (\E data \in RouteAddInputs : routeAdd(data)) /\ UNCHANGED <<concVars, clientVars>>
    \/ (\E id \in IdInputs : routeDelete(id)) /\ UNCHANGED <<concVars, clientVars>>
    \/ (\E req \in RouteChatInputs : routeChat(req.message, req.mode, req.history))
       /\ UNCHANGED <<concVars, clientVars>>

SpecRoutes == Init /\ [][NextRoutes]_vars

-----------------------------------------------------------------------------
(* The scenario of the two entries on emotions and on fear, its Cyrillic text
   transliterated letter by letter as the key terms are *)

sRabotaSEmociqmi ==
    <<"R", "a", "b", "o", "t", "a", " ", "s", " ", "w", "m", "o", "c", "i", "q", "m", "i">>
sEmocii == <<"w", "m", "o", "c", "i", "i">>
sIssledovanieStraxa ==
    <<"I", "s", "s", "l", "e", "d", "o", "v", "a", "n", "i", "e", " ",
      "s", "t", "r", "a", "x", "a">>
sStrax == <<"s", "t", "r", "a", "x">>

\* "расскажи про работу с эмоциями клиента"
ScenarioMessage ==
    <<"r", "a", "s", "s", "k", "a", "j", "i", " ", "p", "r", "o", " ",
      "r", "a", "b", "o", "t", "u", " ", "s", " ",
      "w", "m", "o", "c", "i", "q", "m", "i", " ",
      "k", "l", "i", "e", "n", "t", "a">>

\* What the scenario leaves open: the category and the content of an entry.
ScenarioFields == {<<>>, sZzz, ScenarioMessage}

ScenarioCorpus(cat1, content1, cat2, content2) ==
    << [id |-> <<"e", "1">>, title |-> sRabotaSEmociqmi, category |-> cat1,
        content |-> content1, tags |-> <<sEmocii, sTelo>>],
       [id |-> <<"e", "2">>, title |-> sIssledovanieStraxa, category |-> cat2,
        content |-> content2, tags |-> <<sStrax>>] >>

\* An entry a user adds that matches the message in its title.
ScenarioAdd ==
    [title |-> <<"k", "l", "i", "e", "n", "t", "a", " ", "r", "a", "b", "o", "t", "u", " ",
                 "r", "a", "s", "s", "k", "a", "j", "i">>,
     category |-> sC, content |-> sX, tags |-> <<sA>>]

InitScenario ==
    /\ \E cat1 \in ScenarioFields, content1 \in ScenarioFields,
          cat2 \in ScenarioFields, content2 \in ScenarioFields :
           mptKnowledgeBase = ScenarioCorpus(cat1, content1, cat2, content2)
    /\ customScripts = <<>>
    /\ issued = 0
    /\ call = Call("none", <<>>, NoData, <<>>, 0, <<>>, 0)
    /\ procs = [c \in Clients |-> Idle]
    /\ log = NoLog
    /\ http = NoHttp
    /\ ClientInit

NextScenario ==
    \/ listAll /\ UNCHANGED <<concVars, routeVars, clientVars>>
    \/ addScript(ScenarioAdd) /\ UNCHANGED <<concVars, routeVars, clientVars>>
    \/ deleteScript(Prefix \o randomUUID(1)) /\ UNCHANGED <<concVars, routeVars, clientVars>>
    \/ (\E limit \in 1..DefaultChatLimit :
           findRelevantScriptsForChat(ScenarioMessage, limit))
       /\ UNCHANGED <<concVars, routeVars, clientVars>>
    \/ findRelevantScriptsForChatNoLimit(ScenarioMessage)
       /\ UNCHANGED <<concVars, routeVars, clientVars>>

SpecScenario == InitScenario /\ [][NextScenario]_vars

----------------------------------------------------------------------------
(* Properties *)

\* the merged view a listAll() started in the current state returns
merged == getAllScripts(mptKnowledgeBase, customScripts)

\* id carries the provenance prefix "custom-", spelled out letter by letter
HasPrefix(id) ==
    /\ Len(id) >= 7
    /\ id[1] = "c" /\ id[2] = "u" /\ id[3] = "s" /\ id[4] = "t"
    /\ id[5] = "o" /\ id[6] = "m" /\ id[7] = "-"

\* the first Len(Corpus) entries of list are the built-in entries as they
\* were at process start, field by field and in corpus order
BuiltInPartIntact(list) ==
    /\ Len(list) >= Len(Corpus)
    /\ \A i \in 1..Len(Corpus) :
          /\ list[i].id = Corpus[i].id
          /\ list[i].title = Corpus[i].title
          /\ list[i].category = Corpus[i].category
          /\ list[i].content = Corpus[i].content
          /\ list[i].tags = Corpus[i].tags

\* C1: after any sequence of add and delete calls, whatever the ids, the
\* built-in part of listAll() is the built-in corpus of process start, same
\* entries, same fields, same order; a delete removes nothing but records
\* of the Entry Store.
C1_BuiltInsNeverChange ==
    /\ mptKnowledgeBase = Corpus
    /\ BuiltInPartIntact(merged)
    /\ call.op = "getAllScripts" => BuiltInPartIntact(call.ret)

\* a delete of a built-in id with the prefix prepended has run against a
\* non-empty Entry Store
C1_Witness ==
    /\ call.op = "deleteScript"
    /\ call.id = Prefix \o Corpus[1].id
    /\ Len(customScripts) > 0

\* C2: delete(id) with an id that does not start with "custom-" returns
\* false, makes no statement against the Entry Store and leaves it as it
\* was, whether or not the id is that of a built-in entry.
C2_NonPrefixedDeleteRejected ==
    [][ (call'.op = "deleteScript" /\ ~HasPrefix(call'.id)) =>
            /\ call'.ret = FALSE
            /\ call'.dbOps = 0
            /\ customScripts' = customScripts ]_vars

\* a delete of a built-in id has run against a non-empty Entry Store
C2_Witness ==
    /\ call.op = "deleteScript"
    /\ call.id = Corpus[1].id
    /\ call.ret = FALSE
    /\ Len(customScripts) > 0

\* the rows of a table other than those with the given id, in order
RowsWithout(rows, id) == SelectSeq(rows, LAMBDA r : r.id # id)

\* C3: delete(id) with a prefixed id returns true exactly when the Entry
\* Store held a record with that id; then exactly that record is removed
\* and the others are kept; otherwise it returns false and the store is
\* unchanged.
C3_PrefixedDeleteRemovesExactlyThatRecord ==
    [][ (call'.op = "deleteScript" /\ HasPrefix(call'.id)) =>
            LET held == \E i \in 1..Len(customScripts) :
                            customScripts[i].id = call'.id
            IN  /\ call'.ret = held
                /\ held => /\ Len(customScripts') = Len(customScripts) - 1
                           /\ customScripts' = RowsWithout(customScripts, call'.id)
                /\ ~held => customScripts' = customScripts ]_vars

\* a delete has returned true and left another record in the store
C3_Witness ==
    /\ call.op = "deleteScript"
    /\ call.ret = TRUE
    /\ Len(customScripts) > 0

NoDuplicateIds(list) ==
    \A i, j \in 1..Len(list) : i # j => list[i].id # list[j].id

\* C4: in every reachable state no two entries of the merged view returned
\* by listAll() have the same id.
C4_MergedIdsUnique ==
    /\ NoDuplicateIds(merged)
    /\ call.op = "getAllScripts" => NoDuplicateIds(call.ret)

\* two adds with the same title are in the store and listAll() has run
C4_Witness ==
    /\ call.op = "getAllScripts"
    /\ Len(customScripts) >= 2
    /\ customScripts[1].title = customScripts[2].title

\* C5: listAll() returns the built-in entries first, in corpus order and
\* each with isCustom=false, then the Entry Store's records in the store's
\* order and each with isCustom=true, none dropped or duplicated: its
\* length is the number of built-in entries plus the number of records.
C5_ListAllIsCorpusThenStore ==
    call.op = "getAllScripts" =>
        LET n == Len(mptKnowledgeBase)
        IN  /\ Len(call.ret) = n + Len(customScripts)
            /\ \A i \in 1..n :
                  /\ call.ret[i].id = mptKnowledgeBase[i].id
                  /\ call.ret[i].title = mptKnowledgeBase[i].title
                  /\ call.ret[i].isCustom = FALSE
            /\ \A i \in 1..Len(customScripts) :
                  /\ call.ret[n + i].id = customScripts[i].id
                  /\ call.ret[n + i].title = customScripts[i].title
                  /\ call.ret[n + i].category = customScripts[i].category
                  /\ call.ret[n + i].content = customScripts[i].content
                  /\ call.ret[n + i].isCustom = TRUE

\* listAll() has run with two records in the store
C5_Witness ==
    /\ call.op = "getAllScripts"
    /\ Len(customScripts) = 2

\* the number of characters before the k-th tag in the comma-joined string
RECURSIVE OffsetOfTag(_, _)
OffsetOfTag(tags, k) ==
    IF k = 1 THEN 0 ELSE OffsetOfTag(tags, k - 1) + Len(tags[k - 1]) + 1

\* str is the tags written one after the other with one "," between
\* neighbours, and nothing else
IsCommaJoined(tags, str) ==
    IF tags = <<>> THEN str = <<>>
    ELSE /\ Len(str) = OffsetOfTag(tags, Len(tags)) + Len(tags[Len(tags)])
         /\ \A k \in 1..Len(tags) :
               SubSeq(str, OffsetOfTag(tags, k) + 1,
                      OffsetOfTag(tags, k) + Len(tags[k])) = tags[k]
         /\ \A k \in 1..(Len(tags) - 1) :
               str[OffsetOfTag(tags, k) + Len(tags[k]) + 1] = ","

\* C6: add(title, category, content, tags) assigns an id "custom-" plus a
\* fresh suffix, inserts exactly one record with that id, the given title,
\* category and content and the tags joined by ",", leaves the existing
\* records unchanged and returns an entry with that id and the caller's
\* original tags list; it makes no title-uniqueness check, so an add is
\* never refused because of the records already stored.
C6_AddInsertsOneRecord ==
    /\ [](issued < MaxIssued => \A d \in AddInputs : ENABLED addScript(d))
    /\ [][ call'.op = "addScript" =>
              LET d   == call'.data
                  n   == Len(customScripts)
                  row == customScripts'[n + 1]
              IN  /\ Len(customScripts') = n + 1
                  /\ SubSeq(customScripts', 1, n) = customScripts
                  /\ HasPrefix(row.id) /\ Len(row.id) > 7
                  /\ \A i \in 1..n : customScripts[i].id # row.id
                  /\ row.title = d.title
                  /\ row.category = d.category
                  /\ row.content = d.content
                  /\ IsCommaJoined(d.tags, row.tags)
                  /\ call'.ret.id = row.id
                  /\ call'.ret.title = d.title
                  /\ call'.ret.category = d.category
                  /\ call'.ret.content = d.content
                  /\ call'.ret.tags = d.tags ]_vars

\* two adds with identical arguments have left two records that differ
\* only in their ids, and the tags given are not what a re-read would give
C6_Witness ==
    /\ call.op = "addScript"
    /\ Len(customScripts) = 2
    /\ customScripts[1].id # customScripts[2].id
    /\ customScripts[1].title = customScripts[2].title
    /\ customScripts[1].tags = customScripts[2].tags
    /\ call.ret.tags # parseTags(customScripts[2].tags)

NoComma(tags) ==
    \A k \in 1..Len(tags) : \A i \in 1..Len(tags[k]) : tags[k][i] # ","

\* no tag is empty or begins or ends with a whitespace character
NoBlankEdges(tags) ==
    \A k \in 1..Len(tags) :
        /\ tags[k] # <<>>
        /\ tags[k][1] \notin WhiteSpace
        /\ tags[k][Len(tags[k])] \notin WhiteSpace

\* the list holds the entry just added, with the tags passed to add
ListsAddedEntry(list, added, tags) ==
    \E i \in 1..Len(list) :
        /\ list[i].id = added.id
        /\ list[i].tags = tags
        /\ list[i].isCustom = TRUE

\* C7 as stated: for every add whose tags contain no comma, a listAll()
\* that follows it returns an entry with the assigned id, isCustom true,
\* and a tags list equal to the tags passed to add.
C7_RoundTripAnyCommaFreeTags ==
    [][ (call.op = "addScript" /\ call'.op = "getAllScripts"
         /\ NoComma(call.data.tags)) =>
            ListsAddedEntry(call'.ret, call.ret, call.data.tags) ]_vars

\* C7 amended: for every add whose tags contain no comma and are neither
\* empty nor begin or end with whitespace, a listAll() that follows it
\* returns an entry with the assigned id, isCustom true, and a tags list
\* equal to the tags passed to add, in the same order.
C7_RoundTripCleanTags ==
    [][ (call.op = "addScript" /\ call'.op = "getAllScripts"
         /\ NoComma(call.data.tags) /\ NoBlankEdges(call.data.tags)) =>
            ListsAddedEntry(call'.ret, call.ret, call.data.tags) ]_vars

\* listAll() has returned a custom entry with the tags ["a","b"], and the
\* store holds the record an add with these tags wrote
C7_Witness ==
    /\ call.op = "getAllScripts"
    /\ Len(customScripts) > 0
    /\ customScripts[Len(customScripts)].tags = <<"a", ",", "b">>
    /\ customScripts[Len(customScripts)].content = sX
    /\ call.ret[Len(call.ret)].tags = <<sA, sB>>
    /\ call.ret[Len(call.ret)].isCustom = TRUE

\* isCustom of each entry says whether it lies behind the built-in part
\* and whether its id carries the prefix
FlagMatchesProvenance(list) ==
    \A i \in 1..Len(list) :
        /\ list[i].isCustom = TRUE <=> i > Len(mptKnowledgeBase)
        /\ list[i].isCustom = TRUE <=> HasPrefix(list[i].id)

\* C8: for every entry of every listAll() result, isCustom is true if and
\* only if the entry comes from the Entry Store, and if and only if its id
\* starts with "custom-".
C8_IsCustomIffStoredIffPrefixed ==
    /\ FlagMatchesProvenance(merged)
    /\ call.op = "getAllScripts" => FlagMatchesProvenance(call.ret)

\* listAll() has returned built-in and custom entries together
C8_Witness ==
    /\ call.op = "getAllScripts"
    /\ Len(customScripts) > 0
    /\ Len(call.ret) > Len(mptKnowledgeBase)

IsBlank(text) == \A i \in 1..Len(text) : text[i] \in WhiteSpace

\* C9: search(query, limit) with an empty or whitespace-only query returns
\* exactly the listAll() result, every merged entry in Merge-Layer order,
\* not truncated to limit.
C9_BlankQueryReturnsMergedView ==
    (call.op = "searchScripts" /\ IsBlank(call.text)) =>
        /\ call.ret = merged
        /\ Len(call.ret) = Len(mptKnowledgeBase) + Len(customScripts)

\* a whitespace-only search with a limit below the number of entries
C9_Witness ==
    /\ call.op = "searchScripts"
    /\ call.text = <<"\t", " ">>
    /\ call.limit < Len(call.ret)
    /\ Len(customScripts) > 0

\* the indices of the tokens a lower-cased field contains
TokensIn(terms, field) ==
    {i \in 1..Len(terms) : includes(toLowerCase(field), terms[i])}

\* the indices of the tokens at least one lower-cased tag contains
TokensInSomeTag(terms, tags) ==
    {i \in 1..Len(terms) : \E k \in 1..Len(tags) :
                               includes(toLowerCase(tags[k]), terms[i])}

\* 10, 5, 7 and 2 points per token found in title, category, some tag, content
WeightedSum(terms, script) ==
      10 * Cardinality(TokensIn(terms, script.title))
    + 5 * Cardinality(TokensIn(terms, script.category))
    + 7 * Cardinality(TokensInSomeTag(terms, script.tags))
    + 2 * Cardinality(TokensIn(terms, script.content))

\* C10: the score of an entry is the sum, over the surviving tokens, of +10
\* if the lower-cased title contains the token, +5 for the category, +7 if
\* at least one tag contains it, +2 for the content, each counted at most
\* once per token; a search with a limit that truncates nothing returns
\* exactly the entries for which this sum is positive.
C10_ScoreIsWeightedSumOverTokens ==
    /\ call.op = "searchScripts" =>
          /\ \A i \in 1..Len(merged) :
                searchScore(call.text, merged[i]) =
                    WeightedSum(searchTermsOf(call.text), merged[i])
          /\ (~IsBlank(call.text) /\ call.limit >= Len(merged)) =>
                {call.ret[i].id : i \in 1..Len(call.ret)} =
                    {merged[i].id : i \in
                        {j \in 1..Len(merged) :
                            WeightedSum(searchTermsOf(call.text), merged[j]) > 0}}
    /\ call.op = "findRelevantScriptsForChat" =>
          \A i \in 1..Len(merged) :
              scoreTerms(chatTermsOf(call.text), merged[i], 0) =
                  WeightedSum(chatTermsOf(call.text), merged[i])

\* a two-token search has matched a custom entry whose tags both contain
\* the token and whose content contains it twice
C10_Witness ==
    /\ call.op = "searchScripts"
    /\ call.text = sAbc \o <<" ">> \o sAbc
    /\ \E i \in 1..Len(call.ret) :
          /\ call.ret[i].isCustom = TRUE
          /\ call.ret[i].tags = <<sAbc, sAbc>>
          /\ call.ret[i].content = sAbcSpAbc

----------------------------------------------------------------------------
(* Properties of tokenisation, scoring and ranking *)

\* positions a..b of s are a maximal run of non-whitespace characters
IsRun(s, a, b) ==
    /\ a <= b
    /\ \A i \in a..b : s[i] \notin WhiteSpace
    /\ a = 1 \/ s[a - 1] \in WhiteSpace
    /\ b = Len(s) \/ s[b + 1] \in WhiteSpace

\* where the runs of at least minLen characters start
RunStarts(s, minLen) ==
    {a \in 1..Len(s) : \E b \in a..Len(s) : IsRun(s, a, b) /\ b - a + 1 >= minLen}

\* the lower-cased runs of at least minLen characters, from left to right
TokenList(s, minLen) ==
    LET starts == RunStarts(s, minLen)
        nth(k) == CHOOSE a \in starts : Cardinality({x \in starts : x < a}) = k - 1
        endOf(a) == CHOOSE b \in a..Len(s) : IsRun(s, a, b)
    IN  [k \in 1..Cardinality(starts) |->
            [i \in 1..(endOf(nth(k)) - nth(k) + 1) |->
                LowerChar(s[nth(k) + i - 1])]]

\* C11: the tokens are the whitespace-separated runs of the lower-cased
\* input; search scores those of length at least 3 and chat those of
\* length at least 4, so a token of length 1 or 2 adds nothing to a search
\* score and a token of length 3 adds to a search score but not to the
\* token part of a chat score.
C11_TokensAreRunsOfMinimumLength ==
    /\ call.op = "searchScripts" =>
          /\ searchTermsOf(call.text) = TokenList(call.text, 3)
          /\ \A i \in 1..Len(merged) :
                searchScore(call.text, merged[i]) =
                    WeightedSum(TokenList(call.text, 3), merged[i])
    /\ call.op = "findRelevantScriptsForChat" =>
          /\ chatTermsOf(call.text) = TokenList(call.text, 4)
          /\ \A i \in 1..Len(merged) :
                scoreTerms(chatTermsOf(call.text), merged[i], 0) =
                    WeightedSum(TokenList(call.text, 4), merged[i])

\* a search for "ab abc" has found entries: "abc" counts, "ab" does not
C11_Witness ==
    /\ call.op = "searchScripts"
    /\ call.text = sAb \o <<" ">> \o sAbc
    /\ Len(call.ret) > 0
    /\ Len(customScripts) > 0

\* +5 for every key term found in the lower-cased message and in the
\* entry's lower-cased title, content or some tag
KeyBonus(message, script) ==
    5 * Cardinality(
          {k \in 1..Len(keyTerms) :
              /\ includes(toLowerCase(message), keyTerms[k])
              /\ \/ includes(toLowerCase(script.title), keyTerms[k])
                 \/ includes(toLowerCase(script.content), keyTerms[k])
                 \/ \E t \in 1..Len(script.tags) :
                        includes(toLowerCase(script.tags[t]), keyTerms[k])})

\* C12: in the chat path only, each of the ten key terms that occurs in the
\* lower-cased raw message and in the entry's lower-cased title, content or
\* a tag adds +5 once; a key term found only in the category adds nothing,
\* and the search path adds no key-term bonus.
C12_KeyTermBonusInChatOnly ==
    /\ Len(keyTerms) = 10
    /\ call.op = "findRelevantScriptsForChat" =>
          \A i \in 1..Len(merged) :
              chatScore(call.text, merged[i]) =
                  WeightedSum(TokenList(call.text, 4), merged[i])
                  + KeyBonus(call.text, merged[i])
    /\ call.op = "searchScripts" =>
          \A i \in 1..Len(merged) :
              searchScore(call.text, merged[i]) =
                  WeightedSum(TokenList(call.text, 3), merged[i])

\* a chat call with the upper-case key term has ranked an entry that holds
\* the term in its content above one that holds it in its category only
C12_Witness ==
    /\ call.op = "findRelevantScriptsForChat"
    /\ call.text = <<"T", "E", "L", "O">>
    /\ \E i, j \in 1..Len(call.ret) :
          /\ i < j
          /\ includes(toLowerCase(call.ret[i].content), sTelo)
          /\ call.ret[j].category = sTelo
          /\ ~includes(toLowerCase(call.ret[j].content), sTelo)

\* the call ranks: a chat call, or a search with a non-blank query
IsRankedCall ==
    \/ call.op = "findRelevantScriptsForChat"
    \/ call.op = "searchScripts" /\ ~IsBlank(call.text)

\* the score of an entry for the text of the last call, by its profile
Score(script) ==
    IF call.op = "searchScripts"
    THEN WeightedSum(TokenList(call.text, 3), script)
    ELSE WeightedSum(TokenList(call.text, 4), script) + KeyBonus(call.text, script)

PositiveIds == {merged[i].id : i \in {j \in 1..Len(merged) : Score(merged[j]) > 0}}

ReturnedIds == {call.ret[i].id : i \in 1..Len(call.ret)}

Min(a, b) == IF a < b THEN a ELSE b

\* what C13 says of the result of a ranking call
RankedResultOk ==
    IsRankedCall =>
        /\ \A i \in 1..Len(call.ret) :
              /\ Score(call.ret[i]) > 0
              /\ \E j \in 1..Len(merged) : merged[j] = call.ret[i]
        /\ \A i \in 1..(Len(call.ret) - 1) :
              Score(call.ret[i]) >= Score(call.ret[i + 1])
        /\ NoDuplicateIds(call.ret)
        /\ call.limit >= 0 =>
              Len(call.ret) = Min(call.limit, Cardinality(PositiveIds))
        /\ \A i \in 1..Len(merged) :
              (Score(merged[i]) > 0 /\ merged[i].id \notin ReturnedIds) =>
                  \A r \in 1..Len(call.ret) :
                      Score(call.ret[r]) >= Score(merged[i])

\* C13: search and findRelevantForChat return only entries of score > 0,
\* ordered by score non-increasing, and for limit >= 0 exactly the first
\* min(limit, number of positive-score entries) of the ranking, so no
\* returned entry scores lower than an omitted one; a call that passes no
\* limit uses 10 for search and 3 for findRelevantForChat.
C13_RankedPositiveTruncated ==
    /\ RankedResultOk
    /\ (IsRankedCall /\ ~call.limitPassed) =>
          /\ call.op = "searchScripts" =>
                Len(call.ret) = Min(10, Cardinality(PositiveIds))
          /\ call.op = "findRelevantScriptsForChat" =>
                Len(call.ret) = Min(3, Cardinality(PositiveIds))

\* a chat call without a limit has returned 3 of 4 entries of positive score
C13_Witness ==
    /\ call.op = "findRelevantScriptsForChat"
    /\ ~call.limitPassed
    /\ Len(call.ret) = 3
    /\ Cardinality(PositiveIds) = 4

IndexOfId(list, id) == CHOOSE i \in 1..Len(list) : list[i].id = id

\* C14: two entries of the same nonzero score that both appear in a search
\* or findRelevantForChat result appear in the order they have in
\* listAll(): built-in before custom, and each group in source order.
C14_TiesKeepMergeOrder ==
    IsRankedCall =>
        \A i, j \in 1..Len(call.ret) :
            (i < j /\ Score(call.ret[i]) = Score(call.ret[j])) =>
                IndexOfId(merged, call.ret[i].id) < IndexOfId(merged, call.ret[j].id)

\* a search has returned a built-in and a custom entry of equal score,
\* and two custom entries of equal score
C14_Witness ==
    /\ call.op = "searchScripts"
    /\ call.text = sTelo
    /\ \E i, j, k \in 1..Len(call.ret) :
          /\ i < j /\ j < k
          /\ call.ret[i].isCustom = FALSE
          /\ call.ret[j].isCustom = TRUE
          /\ call.ret[k].isCustom = TRUE
          /\ Score(call.ret[i]) = Score(call.ret[j])
          /\ Score(call.ret[j]) = Score(call.ret[k])

\* term occurs in no field of the script
MatchesNoField(term, script) ==
    /\ ~includes(toLowerCase(script.title), term)
    /\ ~includes(toLowerCase(script.category), term)
    /\ ~includes(toLowerCase(script.content), term)
    /\ \A t \in 1..Len(script.tags) : ~includes(toLowerCase(script.tags[t]), term)

\* C15: for a non-blank query none of whose tokens of length >= 3 occurs
\* in any entry's title, category, content or tags, search returns the
\* empty list; so it does when all its tokens are shorter than 3.
C15_NoMatchGivesEmptyList ==
    ( /\ call.op = "searchScripts"
      /\ ~IsBlank(call.text)
      /\ \A k \in 1..Len(TokenList(call.text, 3)) : \A i \in 1..Len(merged) :
             MatchesNoField(TokenList(call.text, 3)[k], merged[i]) )
    => call.ret = <<>>

\* a search for "ab", which occurs in entries but is too short, found nothing
C15_Witness ==
    /\ call.op = "searchScripts"
    /\ call.text = sAb
    /\ call.ret = <<>>
    /\ Len(customScripts) > 0
    /\ \E i \in 1..Len(merged) : includes(toLowerCase(merged[i].title), sAb)

\* tokens appended to a query or a message
TokenInputs == {sAbc, sAb, sAbcx, sXyz, sZzz, sTelo}

AppendToken(text, token) == text \o <<" ">> \o token

\* C16: for every entry and every query q, q with one more
\* whitespace-separated token appended never scores lower than q, under
\* the search and under the chat profile.
C16_AppendingATokenNeverLowersScore ==
    /\ call.op = "searchScripts" =>
          \A t \in TokenInputs : \A i \in 1..Len(merged) :
              searchScore(AppendToken(call.text, t), merged[i])
                  >= searchScore(call.text, merged[i])
    /\ call.op = "findRelevantScriptsForChat" =>
          \A t \in TokenInputs : \A i \in 1..Len(merged) :
              chatScore(AppendToken(call.text, t), merged[i])
                  >= chatScore(call.text, merged[i])

\* a search whose query scores an entry, and scores it higher with "telo"
\* appended
C16_Witness ==
    /\ call.op = "searchScripts"
    /\ call.text = sABC \o <<" ">> \o sXyz
    /\ \E i \in 1..Len(merged) :
          /\ searchScore(call.text, merged[i]) > 0
          /\ searchScore(AppendToken(call.text, sTelo), merged[i])
                 > searchScore(call.text, merged[i])

\* the ids given out so far, whether their records are still stored or not
IssuedIds == {Prefix \o randomUUID(n) : n \in 1..issued}

\* C19: the only mutations of the Entry Store are insert and delete: a
\* record, once added, keeps its title, category, content and stored tags
\* until it is deleted, and no operation changes a field of a stored
\* record or brings back an id that was stored before.
C19_OnlyInsertAndDelete ==
    /\ [](\A i \in 1..Len(customScripts) : customScripts[i].id \in IssuedIds)
    /\ [][ /\ issued' >= issued
           /\ \A j \in 1..Len(customScripts') :
                 \/ \E i \in 1..Len(customScripts) :
                        customScripts[i] = customScripts'[j]
                 \/ /\ call'.op = "addScript"
                    /\ j = Len(customScripts')
                    /\ customScripts'[j].id \notin IssuedIds
           /\ \A i \in 1..Len(customScripts) :
                 \/ \E j \in 1..Len(customScripts') :
                        customScripts'[j] = customScripts[i]
                 \/ /\ call'.op = "deleteScript"
                    /\ call'.id = customScripts[i].id ]_vars

\* an add has run after a delete: one record is stored, two ids were given
C19_Witness ==
    /\ call.op = "addScript"
    /\ issued = 2
    /\ Len(customScripts) = 1

\* The places of a stored tags string where a fragment begins: just after its
\* start and just after each comma.
FragmentStarts(str) == {0} \cup {i \in 1..Len(str) : str[i] = ","}

\* The fragment beginning after place b: up to the next comma or the end.
FragmentAt(str, b) ==
    LET ends == {c \in (b + 1)..(Len(str) + 1) : c = Len(str) + 1 \/ str[c] = ","}
        e == CHOOSE c \in ends : \A d \in ends : c <= d
    IN  SubSeq(str, b + 1, e - 1)

\* A fragment without the whitespace before its first and after its last
\* non-whitespace character; empty when it has none.
Core(f) ==
    LET solid == {i \in 1..Len(f) : f[i] \notin WhiteSpace}
    IN  IF solid = {} THEN <<>>
        ELSE SubSeq(f, CHOOSE a \in solid : \A x \in solid : a <= x,
                       CHOOSE b \in solid : \A x \in solid : x <= b)

\* The non-empty trimmed fragments of a stored tags string, in order,
\* repeated ones included.
TagsOfString(str) ==
    LET kept == {b \in FragmentStarts(str) : Core(FragmentAt(str, b)) # <<>>}
        nth(k) == CHOOSE b \in kept : Cardinality({x \in kept : x < b}) = k - 1
    IN  [k \in 1..Cardinality(kept) |-> Core(FragmentAt(str, nth(k)))]

\* C24: in every result of listAll the tag list of a custom entry is the list
\* of the non-empty trimmed comma-separated fragments of the tags string now
\* stored for it, in order and with repeats kept; so no tag is empty, begins
\* or ends with whitespace or holds a comma, and the lists depend on nothing
\* but the stored strings: listAll again without a mutation gives them again.
C24_CustomTagsAreTheStoredFragments ==
    call.op = "getAllScripts" =>
        /\ Len(call.ret) = Len(mptKnowledgeBase) + Len(customScripts)
        /\ \A j \in 1..Len(customScripts) :
               LET entry == call.ret[Len(mptKnowledgeBase) + j]
               IN  /\ entry.id = customScripts[j].id
                   /\ entry.tags = TagsOfString(customScripts[j].tags)
                   /\ NoComma(entry.tags)
                   /\ NoBlankEdges(entry.tags)

\* listAll has listed one custom entry with the same tag twice and another
\* whose stored string " a,b " gave the two tags a and b.
C24_Witness ==
    /\ call.op = "getAllScripts"
    /\ \E j \in 1..Len(customScripts) :
           /\ customScripts[j].tags = <<" ", "a", ",", "b", " ">>
           /\ call.ret[Len(mptKnowledgeBase) + j].tags = <<sA, sB>>
    /\ \E j \in 1..Len(customScripts) :
           call.ret[Len(mptKnowledgeBase) + j].tags = <<sAbc, sAbc>>

\* An entry of the merged view without its isCustom flag.
Unflagged(e) ==
    [id |-> e.id, title |-> e.title, category |-> e.category,
     content |-> e.content, tags |-> e.tags]

PlaceIn(list, id) == CHOOSE i \in 1..Len(list) : list[i].id = id

\* C25: for a chat lookup, every built-in script has the same score under the
\* inline scorer and under findRelevantScriptsForChat; the built-in entries
\* the lookup returns are results of the inline scorer and stand in the same
\* relative order there; and with an empty store the lookup returns, flags
\* apart, exactly what the inline scorer returns for the same limit.
C25_ChatScorersAgree ==
    call.op = "findRelevantScriptsForChat" =>
        LET view == getAllScripts(mptKnowledgeBase, customScripts)
            inlineAll == findRelevantScripts(mptKnowledgeBase, call.text,
                                             Len(mptKnowledgeBase))
            builtIns == SelectSeq(call.ret, LAMBDA e : ~e.isCustom)
        IN  /\ \A i \in 1..Len(mptKnowledgeBase) :
                   inlineScore(call.text, mptKnowledgeBase[i])
                       = chatScore(call.text, view[i])
            /\ \A a \in 1..Len(builtIns) :
                   /\ \E i \in 1..Len(inlineAll) : inlineAll[i] = Unflagged(builtIns[a])
                   /\ \A b \in (a + 1)..Len(builtIns) :
                          PlaceIn(inlineAll, builtIns[a].id)
                              < PlaceIn(inlineAll, builtIns[b].id)
            /\ customScripts = <<>> =>
                   [i \in 1..Len(call.ret) |-> Unflagged(call.ret[i])]
                       = findRelevantScripts(mptKnowledgeBase, call.text, call.limit)

\* A chat lookup over a store with an entry returned both built-ins and the
\* stored entry.
C25_Witness ==
    /\ call.op = "findRelevantScriptsForChat"
    /\ customScripts # <<>>
    /\ Len(call.ret) = 3
    /\ Len(SelectSeq(call.ret, LAMBDA e : ~e.isCustom)) = 2

\* C30: tokens are counted as often as they occur: for every entry the
\* search score of "t t" is twice that of "t", and of a query written twice
\* twice that of the query; the chat score apart from its key-term bonus
\* doubles likewise; and with n tokens surviving the length filter the search
\* score lies between 0 and 24 * n and the chat score between 0 and
\* 24 * n + 50.
C30_TokensCountEachTimeAndScoresAreBounded ==
    /\ \A t \in TokenInputs : \A i \in 1..Len(merged) :
           /\ Len(searchTermsOf(AppendToken(t, t))) = 2 * Len(searchTermsOf(t))
           /\ searchScore(AppendToken(t, t), merged[i]) = 2 * searchScore(t, merged[i])
    /\ call.op = "searchScripts" =>
           \A i \in 1..Len(merged) :
               /\ searchScore(call.text, merged[i]) >= 0
               /\ searchScore(call.text, merged[i]) <= 24 * Len(searchTermsOf(call.text))
               /\ searchScore(AppendToken(call.text, call.text), merged[i])
                      = 2 * searchScore(call.text, merged[i])
    /\ call.op = "findRelevantScriptsForChat" =>
           \A i \in 1..Len(merged) :
               /\ chatScore(call.text, merged[i]) >= 0
               /\ chatScore(call.text, merged[i])
                      <= 24 * Len(chatTermsOf(call.text)) + 50
               /\ chatScore(AppendToken(call.text, call.text), merged[i])
                          - KeyBonus(AppendToken(call.text, call.text), merged[i])
                      = 2 * (chatScore(call.text, merged[i])
                                 - KeyBonus(call.text, merged[i]))

\* C30 as stated, the chat profile included: for every entry the score of
\* "t t" is twice the score of "t" under both profiles, and the bounds hold.
C30_EveryScoreDoubles ==
    /\ C30_TokensCountEachTimeAndScoresAreBounded
    /\ \A t \in TokenInputs : \A i \in 1..Len(merged) :
           chatScore(AppendToken(t, t), merged[i]) = 2 * chatScore(t, merged[i])

\* A search for "abc abc" met a stored entry that has "abc" in its title, in
\* a tag and in its content: 19 for each of the two occurrences.
C30_Witness ==
    /\ call.op = "searchScripts"
    /\ call.text = sAbc \o <<" ">> \o sAbc
    /\ \E i \in 1..Len(merged) :
           /\ merged[i].isCustom
           /\ searchScore(sAbc, merged[i]) = 19
           /\ searchScore(call.text, merged[i]) = 38

-----------------------------------------------------------------------------
\* Calls at the same time (SpecConc)

Returned(p) == p.pc = "done" /\ p.outcome = "returned"

\* C17: every call makes at most one round-trip to the store, and whatever the
\* interleaving of the concurrent calls, each call has one moment (its
\* statement's execution, or its start for a call that makes none) at which the
\* store changes exactly as the call made alone would change it and the result
\* it later returns is the result the call made alone would give there; so the
\* results and the final table are those of the calls made one after another
\* in the order of those moments.
C17_CallsAreAtomic ==
    \A c \in Clients :
        /\ procs[c].dbOps <= 1
        /\ Len(procs[c].todo) + procs[c].dbOps <= 1
        /\ procs[c].linStoreOk
        /\ Returned(procs[c]) => procs[c].ret = procs[c].linRet

\* Two deletes of the same stored id ran at the same time: one removed the
\* record and returned true, the other has returned false.
C17_Witness ==
    /\ Returned(procs["r1"]) /\ Returned(procs["r2"])
    /\ procs["r1"].op = "deleteScript" /\ procs["r2"].op = "deleteScript"
    /\ procs["r1"].id = procs["r2"].id
    /\ procs["r1"].ret = TRUE /\ procs["r2"].ret = FALSE
    /\ customScripts = <<>>

IdsOf(entries) == {entries[i].id : i \in 1..Len(entries)}

\* C18: a read (listAll, search, chat lookup) that has returned gives the
\* result computed from one state of the table, the one its single select met
\* while the call was running; an entry whose add had returned before the read
\* started is in that state (and in listAll's result) unless a delete of its id
\* has been asked for, and an entry whose successful delete had returned before
\* the read started is neither in that state nor in the result.
C18_ReadsAreFreshAndSingleState ==
    \A c \in Clients :
        LET p == procs[c] IN
        (Returned(p) /\ IsRead(p.op)) =>
            /\ p.ret = SeqRet(p, p.snap)
            /\ \A id \in p.addedBefore \ log.targets :
                   /\ id \in IdsOf(p.snap)
                   /\ p.op = "getAllScripts" => id \in IdsOf(p.ret)
            /\ \A id \in p.deletedBefore : id \notin IdsOf(p.snap) \cup IdsOf(p.ret)

\* A listAll that started after two adds and a successful delete of the first
\* had returned: it lists the built-ins and the second added entry only.
C18_Witness ==
    LET p == procs["r2"] IN
    /\ Returned(p) /\ p.op = "getAllScripts"
    /\ p.addedBefore = {Prefix \o randomUUID(1), Prefix \o randomUUID(2)}
    /\ p.deletedBefore = {Prefix \o randomUUID(1)}
    /\ IdsOf(p.ret) = IdsOf(mptKnowledgeBase) \cup {Prefix \o randomUUID(2)}

\* C20: a call whose store statement was rejected ends by throwing: it has
\* made that one statement and no other (no retry), it gives no result at all,
\* the table is as the statement found it, and the listing and search routes
\* answer 500; a call that returns a result has had its statement answered.
C20_StoreFailurePropagates ==
    \A c \in Clients :
        LET p == procs[c] IN
        /\ p.failed => /\ p.dbOps = 1
                       /\ p.todo = <<>>
                       /\ p.resps = <<>>
        /\ (p.failed /\ p.pc = "done") =>
               /\ p.outcome = "threw"
               /\ p.ret = <<>>
               /\ p.op \in {"getAllScripts", "searchScripts"} => routeReply(p).status = 500
        /\ Returned(p) => ~p.failed

\* A search whose select was rejected while the table held an added entry:
\* the call threw although the built-ins were at hand.
C20_Witness ==
    LET p == procs["r1"] IN
    /\ p.pc = "done" /\ p.failed /\ p.op = "searchScripts"
    /\ p.outcome = "threw"
    /\ Len(customScripts) = 1

-----------------------------------------------------------------------------
\* The routes (SpecRoutes)

\* C21: the delete route answers every request exactly once; a non-prefixed
\* id gets 400 "not permitted" with deleteScript not called and no statement
\* sent to the store; a prefixed id gets, while the store works, 200 when a
\* record with that id was stored (and it is removed) and 404 when none was
\* (nothing changes); 500 is sent only when the store itself failed.
C21_DeleteRouteAnswers ==
    /\ [](http.route = "DELETE" =>
            /\ Len(http.sent) = 1
            /\ ~startsWith(http.id, Prefix) =>
                   /\ http.sent[1].status = 400
                   /\ http.sent[1].body = "notPermitted"
                   /\ ~http.deleteCalled
                   /\ http.dbOps = 0
            /\ http.sent[1].status = 500 <=> http.failed = "store")
    /\ [][(http'.route = "DELETE" /\ startsWith(http'.id, Prefix)
             /\ http'.failed = "none") =>
            LET existed == \E i \in 1..Len(customScripts) : customScripts[i].id = http'.id
            IN  /\ existed => /\ http'.sent[1].status = 200
                              /\ http'.sent[1].body = "success"
                              /\ customScripts' = RowsWithout(customScripts, http'.id)
                /\ ~existed => /\ http'.sent[1].status = 404
                               /\ http'.sent[1].body = "notFound"
                               /\ customScripts' = customScripts]_vars

\* A prefixed id that names no stored record, asked for while another record
\* is stored, was answered 404.
C21_Witness ==
    /\ http.route = "DELETE"
    /\ startsWith(http.id, Prefix)
    /\ http.sent = <<Reply(404, "notFound", <<>>)>>
    /\ Len(customScripts) = 1

\* C23: a chat request answered while the store works put into the system
\* prompt min(2, number of entries with a positive chat score) entries, each
\* scoring at least as high as every entry not put in before it, with their
\* titles and contents; the scriptReference of a 200 answer is the title of
\* the first of them and is absent exactly when no entry scores above 0.
C23_ChatInjectsTopTwo ==
    (http.route = "CHAT" /\ http.failed # "store") =>
        LET view == getAllScripts(mptKnowledgeBase, customScripts)
            positive == {i \in 1..Len(view) : chatScore(http.text, view[i]) > 0}
            found == http.relevant
            injected == http.messages[1].context
        IN  /\ Len(injected) = Min(RouteChatLimit, Cardinality(positive))
            /\ Len(found) = Len(injected)
            /\ \A k \in 1..Len(injected) :
                   /\ \E i \in positive : view[i] = found[k]
                   /\ injected[k].title = found[k].title
                   /\ injected[k].content = slice0(found[k].content, PromptContentLimit)
                   /\ \A i \in 1..Len(view) :
                          (\A j \in 1..(k - 1) : found[j].id # view[i].id) =>
                              chatScore(http.text, view[i]) <= chatScore(http.text, found[k])
            /\ http.failed = "none" =>
                   /\ http.sent[1].status = 200
                   /\ http.sent[1].scriptReference =
                          IF positive = {} THEN <<>> ELSE <<found[1].title>>

\* Three entries were relevant to the message; two went into the prompt, and
\* the reference is the first one's title, which differs from the second's.
C23_Witness ==
    /\ http.route = "CHAT" /\ http.failed = "none"
    /\ Len(http.relevant) = 2
    /\ Len(http.messages[1].context) = 2
    /\ http.relevant[1].title # http.relevant[2].title
    /\ http.sent[1].scriptReference = <<http.relevant[1].title>>
    /\ Cardinality({i \in 1..Len(getAllScripts(mptKnowledgeBase, customScripts)) :
            chatScore(http.text, getAllScripts(mptKnowledgeBase, customScripts)[i]) > 0}) = 3

-----------------------------------------------------------------------------
\* The scenario (SpecScenario)

IsScenarioCall == call.op = "findRelevantScriptsForChat" /\ call.text = ScenarioMessage

\* The first scenario entry scores higher than the second, and in the result
\* the second is never present without the first before it.
FirstRanksAboveSecond ==
    LET view == getAllScripts(mptKnowledgeBase, customScripts)
        ids == [i \in 1..Len(call.ret) |-> call.ret[i].id]
    IN  /\ chatScore(ScenarioMessage, view[1]) > chatScore(ScenarioMessage, view[2])
        /\ \A j \in 1..Len(ids) :
               ids[j] = view[2].id => \E i \in 1..(j - 1) : ids[i] = view[1].id
        /\ customScripts = <<>> => (call.ret # <<>> /\ call.ret[1] = view[1])

----------------------------------------------------------------------------
(* The browser's session store: client/src/lib/session-storage.ts.          *)
(* localStorage holds the JSON of the session list; every call parses it    *)
(* afresh and writes the whole list back.  Timestamps (createdAt,           *)
(* updatedAt, a message's timestamp) are left out of the records.           *)

\* addMessageToSession appends at most MaxMessages messages in a behaviour
MaxMessages == 2

\* session.title is cut to this many characters
TitleLimit == 50

sNovaqSessiq == <<"N","o","v","a","q"," ","s","e","s","s","i","q">>
sAnalizSessii == <<"A","n","a","l","i","z"," ","s","e","s","s","i","i">>
Ellipsis == <<".", ".", ".">>

\* `session-${now}-${random}` and `msg-${now}-${random}`, n-th value
sessionId(n) == <<"s", "e", "s", "s", "i", "o", "n", "-", Digit(n)>>
messageId(n) == <<"m", "s", "g", "-", Digit(n)>>

\* the ids Date.now() and Math.random() give; a later session may get the
\* id of an earlier one
SessionIds == {sessionId(1), sessionId(2)}
UnknownSessionId == <<"s", "e", "s", "s", "i", "o", "n", "-", "x">>

\* sessions.findIndex(s => s.id === id), 1-based, 0 for "not found"
findIndex(list, id) ==
    IF \E i \in 1..Len(list) : list[i].id = id
    THEN CHOOSE i \in 1..Len(list) :
            /\ list[i].id = id
            /\ \A j \in 1..(i - 1) : list[j].id # id
    ELSE 0

\* getSession: the found session in a sequence of one, or the empty
\* sequence for undefined
getSession(list, id) ==
    IF findIndex(list, id) = 0 THEN <<>> ELSE <<list[findIndex(list, id)]>>

\* saveSession with every session put at the front
saveSessionAlwaysUnshift(list, session) == <<session>> \o list

\* saveSession: the list written back
saveSession(list, session) ==
    IF findIndex(list, session.id) > 0
    THEN [list EXCEPT ![findIndex(list, session.id)] = session]
    ELSE <<session>> \o list

\* deleteSession: the list written back
deleteSession(list, id) == SelectSeq(list, LAMBDA s : s.id # id)

\* the session object createNewSession builds
newSession(id, mode) ==
    [id |-> id,
     title |-> IF mode = "therapy" THEN sNovaqSessiq ELSE sAnalizSessii,
     messages |-> <<>>,
     mode |-> mode,
     status |-> "active"]

createNewSession(list, id, mode) == saveSession(list, newSession(id, mode))

\* the title rule of addMessageToSession with the cut text only
titleOfNoEllipsis(content) == slice0(content, TitleLimit)

\* message.content.slice(0, 50) + (message.content.length > 50 ? "..." : "")
titleOf(content) ==
    slice0(content, TitleLimit) \o (IF Len(content) > TitleLimit THEN Ellipsis ELSE <<>>)

\* the session addMessageToSession saves: the n-th message made is pushed
withMessage(session, message, n) ==
    LET newMessage == [id |-> messageId(n), role |-> message.role,
                       content |-> message.content,
                       scriptReference |-> message.scriptReference]
        messages == Append(session.messages, newMessage)
    IN  [session EXCEPT
            !.messages = messages,
            !.title = IF Len(messages) = 1 /\ message.role = "user"
                      THEN titleOf(message.content) ELSE @]

\* addMessageToSession on a stored session: the list written back
addMessageToSession(list, id, message, n) ==
    saveSession(list, withMessage(getSession(list, id)[1], message, n))

\* updateSessionTitle / completeSession: the list written back
updateSessionTitle(list, id, title) ==
    IF getSession(list, id) = <<>> THEN list
    ELSE saveSession(list, [getSession(list, id)[1] EXCEPT !.title = title])

completeSession(list, id) ==
    IF getSession(list, id) = <<>> THEN list
    ELSE saveSession(list, [getSession(list, id)[1] EXCEPT !.status = "completed"])

\* What the store is called with
LongContent == [i \in 1..(TitleLimit + 1) |-> "x"]
FullContent == [i \in 1..TitleLimit |-> "y"]
ShortContent == <<"h", "i">>

SessionIdInputs == SessionIds \cup {UnknownSessionId}
SessionModes == {"therapy", "analysis"}
SessionMessageInputs ==
    { [role |-> "user", content |-> LongContent, scriptReference |-> <<>>],
      [role |-> "user", content |-> FullContent, scriptReference |-> <<>>],
      [role |-> "assistant", content |-> ShortContent, scriptReference |-> <<sAbc>>] }
SessionTitleInputs == {<<"t">>}
\* a session object built by the caller of saveSession
SavedSession(id) ==
    [id |-> id, title |-> <<"s">>, messages |-> <<>>, mode |-> "analysis",
     status |-> "completed"]

SessionOp(op, id, threw) ==
    [op |-> op, id |-> id, threw |-> threw, history |-> <<>>]

LibraryUnchanged == UNCHANGED <<storeVars, concVars, routeVars, pageVars>>

callCreateNewSession(id, mode) ==
    /\ localStorage' = createNewSession(localStorage, id, mode)
    /\ sessionOp' = SessionOp("createNewSession", id, FALSE)
    /\ UNCHANGED appended
    /\ LibraryUnchanged

callSaveSession(session) ==
    /\ localStorage' = saveSession(localStorage, session)
    /\ sessionOp' = SessionOp("saveSession", session.id, FALSE)
    /\ UNCHANGED appended
    /\ LibraryUnchanged

callDeleteSession(id) ==
    /\ localStorage' = deleteSession(localStorage, id)
    /\ sessionOp' = SessionOp("deleteSession", id, FALSE)
    /\ UNCHANGED appended
    /\ LibraryUnchanged

callAddMessageToSession(id, message) ==
    /\ appended < MaxMessages
    /\ IF getSession(localStorage, id) = <<>>
       THEN /\ sessionOp' = SessionOp("addMessageToSession", id, TRUE)
            /\ UNCHANGED <<localStorage, appended>>
       ELSE /\ localStorage' = addMessageToSession(localStorage, id, message, appended + 1)
            /\ appended' = appended + 1
            /\ sessionOp' = SessionOp("addMessageToSession", id, FALSE)
    /\ LibraryUnchanged

callUpdateSessionTitle(id, title) ==
    /\ localStorage' = updateSessionTitle(localStorage, id, title)
    /\ sessionOp' = SessionOp("updateSessionTitle", id, FALSE)
    /\ UNCHANGED appended
    /\ LibraryUnchanged

callCompleteSession(id) ==
    /\ localStorage' = completeSession(localStorage, id)
    /\ sessionOp' = SessionOp("completeSession", id, FALSE)
    /\ UNCHANGED appended
    /\ LibraryUnchanged

NextSessions ==
    \/ \E id \in SessionIds, mode \in SessionModes : callCreateNewSession(id, mode)
    \/ \E id \in SessionIds : callSaveSession(SavedSession(id))
    \/ \E id \in SessionIdInputs : callDeleteSession(id)
    \/ \E id \in SessionIdInputs, message \in SessionMessageInputs :
           callAddMessageToSession(id, message)
    \/ \E id \in SessionIdInputs, title \in SessionTitleInputs :
           callUpdateSessionTitle(id, title)
    \/ \E id \in SessionIdInputs : callCompleteSession(id)

SpecSessions == Init /\ [][NextSessions]_vars


----------------------------------------------------------------------------
(* The chat page: client/src/pages/chat.tsx.  A handler runs to its end and *)
(* the page is rendered again before the next event.  The input box is      *)
(* shown for a selected session only and is given isLoading while the       *)
(* request is pending, so one request is in flight at a time.  The reply    *)
(* step runs the POST /api/chat handler and then the callback of the        *)
(* mutation, which reads currentSession as the page last rendered it.       *)

sReply == <<"r", "e", "p", "l", "y">>

\* currentSession.messages.map(m => ({ role: m.role, content: m.content }))
historyOf(messages) ==
    [i \in 1..Len(messages) |-> [role |-> messages[i].role, content |-> messages[i].content]]

\* A session left in localStorage by earlier visits, with n messages
earlierMessageId(i) == <<"m", "s", "g", "-", "e", Digit(i \div 10), Digit(i % 10)>>
EarlierSession(n) ==
    [id |-> sessionId(0),
     title |-> titleOf(HistoryOf(n)[1].content),
     messages |-> [i \in 1..n |->
                     [id |-> earlierMessageId(i), role |-> HistoryOf(n)[i].role,
                      content |-> HistoryOf(n)[i].content, scriptReference |-> <<>>]],
     mode |-> "therapy",
     status |-> "active"]

EarlierStores ==
    {<<>>, <<EarlierSession(HistoryWindow)>>, <<EarlierSession(HistoryWindow + 1)>>}

ChatContents == {sAbc, sZzz}

ChatRequest(message, id, mode, history) ==
    [message |-> message, sessionId |-> id, mode |-> mode, history |-> history]

ServerUnchanged == UNCHANGED <<storeVars, concVars, routeVars>>

\* The page after its first render and the effect that loads the sessions
InitChat ==
    /\ mptKnowledgeBase = Corpus
    /\ customScripts = <<>>
    /\ issued = 0
    /\ call = Call("none", <<>>, NoData, <<>>, 0, <<>>, 0)
    /\ procs = [c \in Clients |-> Idle]
    /\ log = NoLog
    /\ http = NoHttp
    /\ localStorage \in EarlierStores
    /\ sessions = localStorage
    /\ made = 0
    /\ appended = 0
    /\ sessionOp = NoSessionOp
    /\ currentSession = <<>>
    /\ pending = <<>>

handleNewSession(mode) ==
    /\ made < Cardinality(SessionIds)
    /\ localStorage' = createNewSession(localStorage, sessionId(made + 1), mode)
    /\ made' = made + 1
    /\ currentSession' = <<newSession(sessionId(made + 1), mode)>>
    /\ sessions' = localStorage'
    /\ sessionOp' = SessionOp("handleNewSession", sessionId(made + 1), FALSE)
    /\ UNCHANGED <<appended, pending>>
    /\ ServerUnchanged

handleSelectSession(session) ==
    /\ currentSession' = <<session>>
    /\ sessionOp' = SessionOp("handleSelectSession", session.id, FALSE)
    /\ UNCHANGED <<localStorage, made, appended, sessions, pending>>
    /\ ServerUnchanged

handleDeleteSession(id) ==
    /\ localStorage' = deleteSession(localStorage, id)
    /\ sessions' = localStorage'
    /\ currentSession' = IF currentSession # <<>> /\ currentSession[1].id = id
                         THEN <<>> ELSE currentSession
    /\ sessionOp' = SessionOp("handleDeleteSession", id, FALSE)
    /\ UNCHANGED <<made, appended, pending>>
    /\ ServerUnchanged

\* handleSendMessage with the history read after the message was added
existingHistoryAfterAdd(list, session) ==
    historyOf(getSession(list, session.id)[1].messages)

\* "existingHistory": read from currentSession before the message is added
existingHistory(list, session) == historyOf(session.messages)

handleSendMessage(content) ==
    LET message == [role |-> "user", content |-> content, scriptReference |-> <<>>]
    IN
    /\ appended < MaxMessages
    /\ IF currentSession = <<>>
       THEN LET id == sessionId(made + 1)
                stored == addMessageToSession(
                              createNewSession(localStorage, id, "therapy"),
                              id, message, appended + 1)
            IN  /\ made < Cardinality(SessionIds)
                /\ localStorage' = stored
                /\ made' = made + 1
                /\ appended' = appended + 1
                /\ currentSession' = getSession(stored, id)
                /\ sessions' = stored
                /\ pending' = <<ChatRequest(content, id, "therapy", <<>>)>>
                /\ sessionOp' = SessionOp("handleSendMessage", id, FALSE)
       ELSE LET session == currentSession[1]
                stored == addMessageToSession(localStorage, session.id, message,
                                              appended + 1)
            IN  IF getSession(localStorage, session.id) = <<>>
                THEN /\ sessionOp' = SessionOp("handleSendMessage", session.id, TRUE)
                     /\ UNCHANGED <<localStorage, made, appended, currentSession,
                                    sessions, pending>>
                ELSE /\ localStorage' = stored
                     /\ appended' = appended + 1
                     /\ currentSession' = getSession(stored, session.id)
                     /\ sessions' = stored
                     /\ pending' = <<ChatRequest(content, session.id, session.mode,
                                                 existingHistory(stored, session))>>
                     /\ sessionOp' = [SessionOp("handleSendMessage", session.id, FALSE)
                                        EXCEPT !.history = existingHistory(stored, session)]
                     /\ UNCHANGED made
    /\ ServerUnchanged

\* "if (currentSession) { ... getSession(currentSession.id)": the id of the
\* session onSuccess adds the reply to, or none
replyTargetOf(current) ==
    IF current = <<>> THEN <<>> ELSE <<current[1].id>>

\* the request is answered: the server handles it, then onSuccess or onError
chatReply ==
    /\ pending # <<>>
    /\ appended < MaxMessages
    /\ routeChat(pending[1].message, pending[1].mode, pending[1].history)
    /\ pending' = <<>>
    /\ UNCHANGED <<made, concVars>>
    /\ LET reply == http'.sent[1]
           target == replyTargetOf(currentSession)
       IN  IF reply.status = 200
           THEN /\ sessionOp' = SessionOp("onSuccess", pending[1].sessionId, FALSE)
                /\ IF target # <<>> /\ getSession(localStorage, target[1]) # <<>>
                   THEN /\ localStorage' =
                              addMessageToSession(localStorage, target[1],
                                  [role |-> "assistant", content |-> sReply,
                                   scriptReference |-> reply.scriptReference],
                                  appended + 1)
                        /\ appended' = appended + 1
                        /\ currentSession' = getSession(localStorage', target[1])
                        /\ sessions' = localStorage'
                   ELSE UNCHANGED <<localStorage, appended, currentSession, sessions>>
           ELSE /\ sessionOp' = SessionOp("onError", pending[1].sessionId, FALSE)
                /\ UNCHANGED <<localStorage, appended, currentSession, sessions>>

NextChat ==
    \/ \E mode \in SessionModes : handleNewSession(mode)
    \/ \E i \in 1..Len(sessions) : handleSelectSession(sessions[i])
    \/ \E i \in 1..Len(sessions) : handleDeleteSession(sessions[i].id)
    \/ \E content \in ChatContents :
           currentSession # <<>> /\ pending = <<>> /\ handleSendMessage(content)
    \/ chatReply

SpecChat == InitChat /\ [][NextChat]_vars

----------------------------------------------------------------------------
(* Properties of the session store, checked under SpecSessions *)

StoredIds == {localStorage[i].id : i \in 1..Len(localStorage)}

\* position of the session with this id in the list before the call, or 0
PlaceOf(id) ==
    IF id \in StoredIds
    THEN CHOOSE i \in 1..Len(localStorage) : localStorage[i].id = id
    ELSE 0

SavesASession == sessionOp'.op \in {"saveSession", "createNewSession"}

\* a save keeps the list as it was but for the saved id, which stays where
\* it was or, when new, goes to the front
SavedInPlaceOrAtFront ==
    LET id == sessionOp'.id
        k == PlaceOf(id)
    IN  IF k > 0
        THEN /\ Len(localStorage') = Len(localStorage)
             /\ localStorage'[k].id = id
             /\ \A j \in 1..Len(localStorage) : j # k => localStorage'[j] = localStorage[j]
        ELSE /\ Len(localStorage') = Len(localStorage) + 1
             /\ localStorage'[1].id = id
             /\ \A j \in 1..Len(localStorage) : localStorage'[j + 1] = localStorage[j]

\* a delete takes out the session with the id and closes the gap
DeletedExactlyThat ==
    LET id == sessionOp'.id
        k == PlaceOf(id)
    IN  IF k > 0
        THEN /\ Len(localStorage') = Len(localStorage) - 1
             /\ \A j \in 1..Len(localStorage') :
                   localStorage'[j] = IF j < k THEN localStorage[j] ELSE localStorage[j + 1]
        ELSE localStorage' = localStorage

\* C27: stored sessions have pairwise different ids; a save replaces the
\* session with the same id where it stands, keeping the length of the list,
\* and otherwise puts the session at the front; deleteSession(id) removes the
\* session with that id only, keeps the order of the others and changes
\* nothing when the id is not stored.
C27_IdsUniqueSaveInPlaceDeleteExact ==
    /\ [](\A i, j \in 1..Len(localStorage) :
             localStorage[i].id = localStorage[j].id => i = j)
    /\ [][/\ SavesASession => SavedInPlaceOrAtFront
          /\ sessionOp'.op = "saveSession" =>
                \E i \in 1..Len(localStorage') :
                    localStorage'[i] = SavedSession(sessionOp'.id)
          /\ sessionOp'.op = "deleteSession" => DeletedExactlyThat]_vars

\* A session was saved over a stored one that was not at the front, and a
\* delete of a stored id was made before or after
C27_Witness ==
    /\ sessionOp.op = "saveSession"
    /\ Len(localStorage) = Cardinality(SessionIds)
    /\ localStorage[Len(localStorage)] = SavedSession(sessionOp.id)
    /\ localStorage[1].status = "active"

\* the title the claim gives for a first user message
FirstTitle(content, title) ==
    IF Len(content) <= TitleLimit
    THEN title = content
    ELSE /\ Len(title) = TitleLimit + Len(Ellipsis)
         /\ \A i \in 1..TitleLimit : title[i] = content[i]
         /\ \A i \in 1..Len(Ellipsis) : title[TitleLimit + i] = "."

AppendedOne ==
    LET id == sessionOp'.id
        k == PlaceOf(id)
        old == localStorage[k]
        new == localStorage'[k]
        last == new.messages[Len(new.messages)]
    IN  /\ ~sessionOp'.threw
        /\ Len(localStorage') = Len(localStorage)
        /\ \A j \in 1..Len(localStorage) : j # k => localStorage'[j] = localStorage[j]
        /\ Len(new.messages) = Len(old.messages) + 1
        /\ \A i \in 1..Len(old.messages) : new.messages[i] = old.messages[i]
        /\ \E m \in SessionMessageInputs :
              /\ last.role = m.role
              /\ last.content = m.content
              /\ last.scriptReference = m.scriptReference
        /\ new.id = old.id /\ new.mode = old.mode /\ new.status = old.status
        /\ IF old.messages = <<>> /\ last.role = "user"
           THEN FirstTitle(last.content, new.title)
           ELSE new.title = old.title

\* C28: addMessageToSession on a stored session appends one message at the
\* end of that session, keeps the earlier messages and the other sessions,
\* and sets the title (first 50 characters, "..." added when longer) only for
\* a first message of role "user"; on an id that is not stored it throws and
\* the store stays as it was; updateSessionTitle and completeSession on an
\* id that is not stored return without a change.
C28_AppendsOneMessageOrThrows ==
    [][/\ sessionOp'.op = "addMessageToSession" =>
             IF sessionOp'.id \in StoredIds
             THEN AppendedOne
             ELSE sessionOp'.threw /\ localStorage' = localStorage
       /\ (/\ sessionOp'.op \in {"updateSessionTitle", "completeSession"}
           /\ sessionOp'.id \notin StoredIds)
             => ~sessionOp'.threw /\ localStorage' = localStorage]_vars

\* A second message was added to a session whose title was cut from a first
\* user message longer than the limit
C28_Witness ==
    /\ sessionOp.op = "addMessageToSession"
    /\ ~sessionOp.threw
    /\ \E i \in 1..Len(localStorage) :
          /\ localStorage[i].id = sessionOp.id
          /\ Len(localStorage[i].messages) = 2
          /\ localStorage[i].messages[1].content = LongContent
          /\ Len(localStorage[i].title) = TitleLimit + Len(Ellipsis)

----------------------------------------------------------------------------
(* Properties of the chat page, checked under SpecChat *)

\* C26 as stated: when a request sent from session S succeeds, the reply is
\* appended to S and to no other session, whatever was selected, created or
\* deleted meanwhile; when S is no longer stored, the store stays as it was.
C26_ReplyGoesToTheSendingSession ==
    [][sessionOp'.op = "onSuccess" =>
          LET k == PlaceOf(pending[1].sessionId)
          IN  IF k > 0
              THEN /\ Len(localStorage') = Len(localStorage)
                   /\ \A j \in 1..Len(localStorage) :
                         j # k => localStorage'[j] = localStorage[j]
                   /\ Len(localStorage'[k].messages) = Len(localStorage[k].messages) + 1
                   /\ localStorage'[k].messages[Len(localStorage'[k].messages)].role
                          = "assistant"
              ELSE localStorage' = localStorage]_vars

\* the list passed to the backend: the system message, the last HistoryWindow
\* messages of the history as they were, the user's message
BackendListWellFormed ==
    LET ms == http.messages
        h == http.history
        n == Min(Len(h), HistoryWindow)
    IN  /\ Len(ms) = n + 2
        /\ ms[1].role = "system"
        /\ \A i \in 1..n :
              /\ ms[1 + i].role = h[Len(h) - n + i].role
              /\ ms[1 + i].content = h[Len(h) - n + i].content
        /\ \A i \in 2..Len(ms) : ms[i].role # "system"
        /\ ms[Len(ms)].role = "user"
        /\ ms[Len(ms)].content = http.text

\* the history of a request is the session as stored before the handler ran
HistoryIsTheSessionBefore ==
    LET id == sessionOp'.id
        old == localStorage[PlaceOf(id)].messages
        new == getSession(localStorage', id)[1].messages
        h == pending'[1].history
    IN  /\ PlaceOf(id) > 0
        /\ Len(h) = Len(old)
        /\ \A i \in 1..Len(old) :
              h[i].role = old[i].role /\ h[i].content = old[i].content
        /\ Len(new) = Len(old) + 1
        /\ \A i \in 1..Len(old) : new[i] = old[i] /\ new[i].id # new[Len(new)].id
        /\ new[Len(new)].content = pending'[1].message
        /\ new[Len(new)].role = "user"

\* C29: the list the chat endpoint passes to the backend is one system
\* message, then at most the last 10 messages of the history in their order,
\* then the user's message, last and once; the history the page sends with a
\* message is the session's messages from before the message was added, and
\* the endpoint is handed that history and that message.
C29_BackendListAndHistory ==
    /\ []((http.route = "CHAT" /\ http.failed # "store") => BackendListWellFormed)
    /\ [][/\ (sessionOp'.op = "handleSendMessage" /\ ~sessionOp'.threw)
                => HistoryIsTheSessionBefore
          /\ sessionOp'.op \in {"onSuccess", "onError"}
                => /\ http'.history = pending[1].history
                   /\ http'.text = pending[1].message]_vars

\* A message was sent from a session of more than HistoryWindow messages and
\* answered: the backend got the last HistoryWindow of them
C29_Witness ==
    /\ sessionOp.op = "onSuccess"
    /\ Len(http.history) = HistoryWindow + 1
    /\ Len(http.messages) = HistoryWindow + 2
    /\ http.messages[2].content = http.history[2].content
====
